---- MODULE Spec2Model ----
(***************************************************************************)
(* A model of roxl: the Chunk (bytecode, constant pool, run-length line    *)
(* table), the Scanner, the Pratt Parser that writes bytecode while it     *)
(* parses, and the stack VM that runs a Chunk.                             *)
(*                                                                         *)
(* Characters are one-character strings and a source text is a sequence of *)
(* them (ASCII sources only, where char index and byte index agree).       *)
(* Bytes are the integers 0..255.  Option<T> is the value or a None        *)
(* constant of the same shape.                                             *)
(***************************************************************************)
EXTENDS Integers, Sequences, FiniteSets, TLC

VARIABLES
    chunk,    \* the caller's Chunk under construction: code, constants, lines
    writes,   \* the line argument of every Chunk::write made on chunk, in order
    vm,       \* the VM value: chunk (Option<Chunk>), ip, stack
    pc,       \* where the VM is: "ready", "running" (inside run's loop), "halted"
    result,   \* what the last interpret/instruct call returned
    parser,   \* the Parser as compile left it (had_error, panic_mode, ...)
    source,   \* the source text of the last interpret call
    steps,    \* iterations of run's loop made in the current run
    lastOp,   \* the opcode the last iteration of run's loop decoded
    calls,    \* interpret/instruct calls made on this VM value
    probe,    \* the last conversion made between OpCode and u8, with its result
    scan      \* a Scanner on its own and what its scan_token calls returned

vars ==
    <<chunk, writes, vm, pc, result, parser, source, steps, lastOp, calls,
      probe, scan>>

(***************************************************************************)
(* Bounds of the model.                                                    *)
(***************************************************************************)
MaxWrites == 5      \* Chunk::write calls on one chunk (SpecChunk)
MaxLine == 3        \* source lines 1..MaxLine passed to Chunk::write
MaxProbe == 2       \* get_line is probed up to this far past the last offset
MaxLexemes == 3     \* lexemes in a source text of Sources
MaxItems == 2       \* instructions in a chunk of GeneralPrograms
MaxCalls == 2       \* interpret/instruct calls on one VM value (SpecReuse)
MaxPool == 257      \* constants in a chunk handed to compile (SpecCompile)
MaxScanLen == 3     \* characters in a source text of ScanTexts (SpecScan)

(***************************************************************************)
(* value.rs: Value.  A Number is an f64, modelled as an exact extended     *)
(* rational in sign-magnitude form: sg is 1 or -1, num/den is in lowest    *)
(* terms, zero is 0/1 (with its sign, as IEEE 754 keeps it), infinity is   *)
(* 1/0 and NaN is 0/0.  Rounding of inexact quotients is not modelled.     *)
(***************************************************************************)
RECURSIVE Gcd(_, _)
Gcd(a, b) == IF b = 0 THEN a ELSE Gcd(b, a % b)

Nil == [kind |-> "Nil"]

Bool(b) == [kind |-> "Bool", b |-> b]

Str(s) == [kind |-> "Str", s |-> s]

NaN == [kind |-> "Number", sg |-> 1, num |-> 0, den |-> 0]

Inf(sg) == [kind |-> "Number", sg |-> sg, num |-> 1, den |-> 0]

Finite(sg, n, d) ==
    IF n = 0 THEN [kind |-> "Number", sg |-> sg, num |-> 0, den |-> 1]
    ELSE LET g == Gcd(n, d)
         IN  [kind |-> "Number", sg |-> sg, num |-> n \div g, den |-> d \div g]

Number(n) == Finite(1, n, 1)

IsNaN(x) == x.num = 0 /\ x.den = 0

IsInf(x) == x.num = 1 /\ x.den = 0

IsZero(x) == x.num = 0 /\ x.den = 1

Abs(i) == IF i < 0 THEN 0 - i ELSE i

\* f64 negation: flips the sign, of zero and infinity too.
F64Neg(x) == IF IsNaN(x) THEN NaN ELSE [x EXCEPT !.sg = 0 - x.sg]

\* f64 addition.
F64Add(x, y) ==
    IF IsNaN(x) \/ IsNaN(y) THEN NaN
    ELSE IF IsInf(x) /\ IsInf(y) THEN (IF x.sg = y.sg THEN x ELSE NaN)
    ELSE IF IsInf(x) THEN x
    ELSE IF IsInf(y) THEN y
    ELSE LET s == x.sg * x.num * y.den + y.sg * y.num * x.den
         IN  IF s = 0
             THEN Finite(IF x.sg = -1 /\ y.sg = -1 THEN -1 ELSE 1, 0, 1)
             ELSE Finite(IF s < 0 THEN -1 ELSE 1, Abs(s), x.den * y.den)

\* f64 subtraction: x - y is x + (-y) in IEEE 754.
F64Sub(x, y) == F64Add(x, F64Neg(y))

\* f64 multiplication.
F64Mul(x, y) ==
    IF IsNaN(x) \/ IsNaN(y) THEN NaN
    ELSE IF (IsInf(x) /\ IsZero(y)) \/ (IsZero(x) /\ IsInf(y)) THEN NaN
    ELSE IF IsInf(x) \/ IsInf(y) THEN Inf(x.sg * y.sg)
    ELSE Finite(x.sg * y.sg, x.num * y.num, x.den * y.den)

\* f64 division.
F64Div(x, y) ==
    IF IsNaN(x) \/ IsNaN(y) THEN NaN
    ELSE IF (IsInf(x) /\ IsInf(y)) \/ (IsZero(x) /\ IsZero(y)) THEN NaN
    ELSE IF IsInf(x) \/ IsZero(y) THEN Inf(x.sg * y.sg)
    ELSE IF IsInf(y) THEN Finite(x.sg * y.sg, 0, 1)
    ELSE Finite(x.sg * y.sg, x.num * y.den, x.den * y.num)

\* Result<Value, InterpretError> of the operator impls.
OkVal(v) == [ok |-> TRUE, v |-> v, err |-> <<"", "">>]

ErrVal(variant, msg) == [ok |-> FALSE, v |-> Nil, err |-> <<variant, msg>>]

(***************************************************************************)
(* chunk.rs: OpCode and its byte encoding.                                 *)
(***************************************************************************)
OpCodes ==
    {"Constant", "ConstantLong", "Nil", "True", "False", "Add", "Subtract",
     "Multiply", "Divide", "Not", "Negate", "Return"}

\* impl From<OpCode> for u8, mutated: Not and Negate have each other's
\* byte.
OpByteSwapped(op) ==
    CASE op = "Constant" -> 0
      [] op = "ConstantLong" -> 1
      [] op = "Nil" -> 2
      [] op = "True" -> 3
      [] op = "False" -> 4
      [] op = "Add" -> 5
      [] op = "Subtract" -> 6
      [] op = "Multiply" -> 7
      [] op = "Divide" -> 8
      [] op = "Not" -> 10
      [] op = "Negate" -> 9
      [] op = "Return" -> 11

\* impl From<OpCode> for u8
OpByte(op) ==
    CASE op = "Constant" -> 0
      [] op = "ConstantLong" -> 1
      [] op = "Nil" -> 2
      [] op = "True" -> 3
      [] op = "False" -> 4
      [] op = "Add" -> 5
      [] op = "Subtract" -> 6
      [] op = "Multiply" -> 7
      [] op = "Divide" -> 8
      [] op = "Not" -> 9
      [] op = "Negate" -> 10
      [] op = "Return" -> 11

\* impl TryFrom<u8> for OpCode: the opcode, or "BadOPCodeError".
ByteOp(byte) ==
    CASE byte = 0 -> "Constant"
      [] byte = 1 -> "ConstantLong"
      [] byte = 2 -> "Nil"
      [] byte = 3 -> "True"
      [] byte = 4 -> "False"
      [] byte = 5 -> "Add"
      [] byte = 6 -> "Subtract"
      [] byte = 7 -> "Multiply"
      [] byte = 8 -> "Divide"
      [] byte = 9 -> "Not"
      [] byte = 10 -> "Negate"
      [] byte = 11 -> "Return"
      [] OTHER -> "BadOPCodeError"

\* impl TryFrom<u8> for OpCode with its Result: Ok of the opcode, or Err
\* of BadOPCodeError with the byte.
TryFromU8(byte) ==
    LET Decoded(op) ==
            IF op = "BadOPCodeError"
            THEN [ok |-> FALSE, op |-> "none", err |-> <<"BadOPCodeError", byte>>]
            ELSE [ok |-> TRUE, op |-> op, err |-> <<"none", 0>>]
    IN  Decoded(ByteOp(byte))

(***************************************************************************)
(* chunk.rs: Chunk.                                                        *)
(***************************************************************************)
\* Chunk::default()
EmptyChunk == [code |-> <<>>, constants |-> <<>>, lines |-> <<>>]

\* Option: None
None == [some |-> FALSE]

Some(x) == [some |-> TRUE, v |-> x]

\* The call did not return: a panic unwound it.
Panicked == [some |-> FALSE, panic |-> TRUE]

\* Chunk::write, mutated: every write opens a new run.
ChunkWriteNoCoalesce(c, byte, line) ==
    [c EXCEPT !.code = Append(@, byte), !.lines = Append(@, <<line, 1>>)]

\* Chunk::write
ChunkWrite(c, byte, line) ==
    LET n == Len(c.lines)
    IN  [c EXCEPT
            !.code = Append(@, byte),
            !.lines =
                IF n = 0 THEN <<<<line, 1>>>>
                ELSE LET top == c.lines[n]
                     IN  IF line = top[1]
                         THEN Append(SubSeq(c.lines, 1, n - 1), <<line, top[2] + 1>>)
                         ELSE Append(Append(SubSeq(c.lines, 1, n - 1), top),
                                     <<line, 1>>)]

\* A usize, kept as the two 16-bit halves of its low 32 bits: the only
\* thing done with a usize that may exceed i32::MAX is the cast `as i32`,
\* which keeps exactly those bits.
USize(hi, lo) == [hi |-> hi, lo |-> lo]

Half == 65536

USizeOf(n) == USize(n \div Half, n % Half)

I32Min == -2147483647 - 1

I32Max == 2147483647

\* `idx as i32`: the low 32 bits read as two's complement.
AsI32(u) ==
    IF u.hi >= Half \div 2 THEN (u.hi - Half) * Half + u.lo
    ELSE u.hi * Half + u.lo

\* The loop of Chunk::get_line from record i on, offset being the i32 that
\* is left.  `offset -= count` overflows i32 when offset is within count of
\* i32::MIN: a panic with overflow checks on (checks), a wrap-around
\* without them.
RECURSIVE GetLineFrom(_, _, _, _)
GetLineFrom(lines, i, offset, checks) ==
    IF i > Len(lines) THEN None
    ELSE LET count == lines[i][2]
         IN  IF offset < I32Min + count
             THEN IF checks THEN Panicked
                  ELSE GetLineFrom(lines, i + 1,
                                   I32Max - (count - (offset - I32Min) - 1), checks)
             ELSE IF offset - count < 0 THEN Some(lines[i][1])
             ELSE GetLineFrom(lines, i + 1, offset - count, checks)

\* Chunk::get_line(idx), idx a USize, under a build with or without
\* overflow checks.
GetLine(c, idx, checks) == GetLineFrom(c.lines, 1, AsI32(idx), checks)

\* Chunk::add_constant: the chunk after the push, and the index returned.
AddConstant(c, value) ==
    [chunk |-> [c EXCEPT !.constants = Append(@, value)],
     index |-> Len(c.constants)]

\* Chunk::read
ChunkRead(c, ip) ==
    IF ip < Len(c.code) THEN [ok |-> TRUE, byte |-> c.code[ip + 1]]
    ELSE [ok |-> FALSE, byte |-> 0]

\* Chunk::read_op
ChunkReadOp(c, ip) ==
    LET Decoded(op) == [ok |-> op # "BadOPCodeError", op |-> op]
        Read(r) ==
            IF ~r.ok THEN [ok |-> FALSE, op |-> "IPOutOfBoundsError"]
            ELSE Decoded(ByteOp(r.byte))
    IN  Read(ChunkRead(c, ip))

\* Chunk::read_constant
ReadConstant(c, idx) ==
    IF idx < Len(c.constants) THEN [ok |-> TRUE, v |-> c.constants[idx + 1]]
    ELSE [ok |-> FALSE, v |-> Nil]

(***************************************************************************)
(* value.rs: the operator impls on Value.                                  *)
(***************************************************************************)
\* impl Add for Value, mutated: the strings are joined the other way round.
ValueAddSwapped(a, b) ==
    IF a.kind = "Number" /\ b.kind = "Number" THEN OkVal(F64Add(a, b))
    ELSE IF a.kind = "Str" /\ b.kind = "Str" THEN OkVal(Str(b.s \o a.s))
    ELSE ErrVal("ValueError", "Can only add 2 number or string values")

\* impl Add for Value
ValueAdd(a, b) ==
    IF a.kind = "Number" /\ b.kind = "Number" THEN OkVal(F64Add(a, b))
    ELSE IF a.kind = "Str" /\ b.kind = "Str" THEN OkVal(Str(a.s \o b.s))
    ELSE ErrVal("ValueError", "Can only add 2 number or string values")

\* impl Sub for Value, mutated: the operands are taken the other way round.
ValueSubSwapped(a, b) ==
    IF a.kind = "Number" /\ b.kind = "Number" THEN OkVal(F64Sub(b, a))
    ELSE ErrVal("ValueError", "Can only subtract 2 number values")

\* impl Sub for Value
ValueSub(a, b) ==
    IF a.kind = "Number" /\ b.kind = "Number" THEN OkVal(F64Sub(a, b))
    ELSE ErrVal("ValueError", "Can only subtract 2 number values")

\* impl Mul for Value
ValueMul(a, b) ==
    IF a.kind = "Number" /\ b.kind = "Number" THEN OkVal(F64Mul(a, b))
    ELSE ErrVal("ValueError", "Can only multiply 2 number values")

\* impl Div for Value
ValueDiv(a, b) ==
    IF a.kind = "Number" /\ b.kind = "Number" THEN OkVal(F64Div(a, b))
    ELSE ErrVal("ValueError", "Can only divide 2 number values")

\* impl Neg for Value
ValueNeg(a) ==
    IF a.kind = "Number" THEN OkVal(F64Neg(a))
    ELSE ErrVal("ValueError", "Can only negate number values")

(***************************************************************************)
(* vm.rs: VM.  A step of the run is one iteration of the loop of VM::run;  *)
(* an Err returned through `?` leaves the VM as it was mutated so far.     *)
(***************************************************************************)
\* VM::default()
NewVM == [chunk |-> None, ip |-> 0, stack |-> <<>>]

\* One iteration of run's loop: the VM after it, the opcode it decoded, and
\* whether run returned (res is then the Result run returned).
Continue(v, op) == [vm |-> v, op |-> op, done |-> FALSE, res |-> <<"none", "">>]

Return(v, op, variant, msg) ==
    [vm |-> v, op |-> op, done |-> TRUE, res |-> <<variant, msg>>]

\* VM::push
Push(v, value) == [v EXCEPT !.stack = Append(@, value)]

\* VM::pop, mutated: an empty stack yields Nil instead of an error.
PopLenient(v) ==
    LET n == Len(v.stack)
    IN  IF n = 0 THEN [ok |-> TRUE, vm |-> v, val |-> Nil]
        ELSE [ok |-> TRUE, vm |-> [v EXCEPT !.stack = SubSeq(@, 1, n - 1)],
              val |-> v.stack[n]]

\* VM::pop
Pop(v) ==
    LET n == Len(v.stack)
    IN  IF n = 0 THEN [ok |-> FALSE, vm |-> v, val |-> Nil]
        ELSE [ok |-> TRUE, vm |-> [v EXCEPT !.stack = SubSeq(@, 1, n - 1)],
              val |-> v.stack[n]]

\* VM::read_op, mutated: ip is left where it was.
ReadOpStuck(v) ==
    LET Read(r) == [ok |-> r.ok, vm |-> v, op |-> r.op]
    IN  IF ~v.chunk.some THEN [ok |-> FALSE, vm |-> v, op |-> "NoChunk"]
        ELSE Read(ChunkReadOp(v.chunk.v, v.ip))

\* VM::read_op
ReadOp(v) ==
    LET Read(r) ==
            IF ~r.ok THEN [ok |-> FALSE, vm |-> v, op |-> r.op]
            ELSE [ok |-> TRUE, vm |-> [v EXCEPT !.ip = @ + 1], op |-> r.op]
    IN  IF ~v.chunk.some THEN [ok |-> FALSE, vm |-> v, op |-> "NoChunk"]
        ELSE Read(ChunkReadOp(v.chunk.v, v.ip))

\* VM::read_byte
ReadByte(v) ==
    LET Read(r) ==
            IF ~r.ok THEN [ok |-> FALSE, vm |-> v, byte |-> 0]
            ELSE [ok |-> TRUE, vm |-> [v EXCEPT !.ip = @ + 1], byte |-> r.byte]
    IN  IF ~v.chunk.some THEN [ok |-> FALSE, vm |-> v, byte |-> 0]
        ELSE Read(ChunkRead(v.chunk.v, v.ip))

\* The closure that VM::run hands to binary_op in the arm of op.
Closure(op, a, b) ==
    CASE op = "Add" -> ValueAdd(a, b)
      [] op = "Subtract" -> ValueSub(a, b)
      [] op = "Multiply" -> ValueMul(a, b)
      [] op = "Divide" -> ValueDiv(a, b)

\* VM::binary_op, called with the closure of op
BinaryOp(v, op) ==
    LET Applied(w, r) ==
            IF ~r.ok THEN Return(w, op, r.err[1], r.err[2])
            ELSE Continue(Push(w, r.v), op)
        PoppedA(pb, pa) ==
            IF ~pa.ok THEN Return(pa.vm, op, "RuntimeError", "")
            ELSE Applied(pa.vm, Closure(op, pa.val, pb.val))
        PoppedB(pb) ==
            IF ~pb.ok THEN Return(pb.vm, op, "RuntimeError", "")
            ELSE PoppedA(pb, Pop(pb.vm))
    IN  PoppedB(Pop(v))

\* VM::run, the OpCode::Constant arm
RunConstant(v) ==
    LET Loaded(w, rc) ==
            IF ~rc.ok THEN Return(w, "Constant", "RuntimeError", "")
            ELSE Continue(Push(w, rc.v), "Constant")
        Operand(rb) ==
            IF ~rb.ok THEN Return(rb.vm, "Constant", "RuntimeError", "")
            ELSE Loaded(rb.vm, ReadConstant(rb.vm.chunk.v, rb.byte))
    IN  Operand(ReadByte(v))

\* VM::run, the OpCode::ConstantLong arm: the for loop from its n-th pass on.
RECURSIVE RunConstantLong(_, _, _)
RunConstantLong(v, n, idx) ==
    LET Loaded(rc) ==
            IF ~rc.ok THEN Return(v, "ConstantLong", "RuntimeError", "")
            ELSE Continue(Push(v, rc.v), "ConstantLong")
        Operand(rb) ==
            IF ~rb.ok THEN Return(rb.vm, "ConstantLong", "RuntimeError", "")
            ELSE RunConstantLong(rb.vm, n + 1, idx * 4 + rb.byte)
    IN  IF n > 2 THEN Loaded(ReadConstant(v.chunk.v, idx))
        ELSE Operand(ReadByte(v))

\* VM::run, the OpCode::Not arm
RunNot(v) ==
    LET Popped(p) ==
            IF ~p.ok THEN Return(p.vm, "Not", "RuntimeError", "")
            ELSE IF p.val.kind = "Bool"
            THEN Continue(Push(p.vm, Bool(~p.val.b)), "Not")
            ELSE IF p.val.kind = "Nil"
            THEN Continue(Push(p.vm, Bool(TRUE)), "Not")
            ELSE Return(p.vm, "Not", "ValueError", "Expected falsable type")
    IN  Popped(Pop(v))

\* VM::run, the OpCode::Negate arm
RunNegate(v) ==
    LET Negated(w, r) ==
            IF ~r.ok THEN Return(w, "Negate", r.err[1], r.err[2])
            ELSE Continue(Push(w, r.v), "Negate")
        Popped(p) ==
            IF ~p.ok THEN Return(p.vm, "Negate", "RuntimeError", "")
            ELSE Negated(p.vm, ValueNeg(p.val))
    IN  Popped(Pop(v))

\* VM::run: one iteration of its loop.
RunIteration(v) ==
    LET Arm(w, op) ==
            CASE op = "Return" -> Return(w, op, "Ok", "")
              [] op = "Constant" -> RunConstant(w)
              [] op = "ConstantLong" -> RunConstantLong(w, 0, 0)
              [] op = "Nil" -> Continue(Push(w, Nil), op)
              [] op = "True" -> Continue(Push(w, Bool(TRUE)), op)
              [] op = "False" -> Continue(Push(w, Bool(FALSE)), op)
              [] op = "Add" -> BinaryOp(w, op)
              [] op = "Subtract" -> BinaryOp(w, op)
              [] op = "Multiply" -> BinaryOp(w, op)
              [] op = "Divide" -> BinaryOp(w, op)
              [] op = "Not" -> RunNot(w)
              [] op = "Negate" -> RunNegate(w)
        Decoded(ro) ==
            IF ~ro.ok THEN Return(ro.vm, ro.op, "RuntimeError", "")
            ELSE Arm(ro.vm, ro.op)
    IN  Decoded(ReadOp(v))

(***************************************************************************)
(* scanner.rs: Scanner.  start and current are 0-based offsets into source *)
(* as in the code; source[i + 1] is the character at offset i.             *)
(***************************************************************************)
Digits == {"0", "1", "2", "3", "4", "5", "6", "7", "8", "9"}

\* char::is_alphabetic on ASCII
Alpha ==
    {"a", "b", "c", "d", "e", "f", "g", "h", "i", "j", "k", "l", "m",
     "n", "o", "p", "q", "r", "s", "t", "u", "v", "w", "x", "y", "z",
     "A", "B", "C", "D", "E", "F", "G", "H", "I", "J", "K", "L", "M",
     "N", "O", "P", "Q", "R", "S", "T", "U", "V", "W", "X", "Y", "Z"}

\* Option<char>: None
NoChar == ""

\* Scanner::new
NewScanner(src) == [source |-> src, start |-> 0, current |-> 0, line |-> 1]

\* Scanner::peek_nth (the offset is -1, 0 or 1 and current + offset >= 0 at
\* every call, so BadPeekOffset is never returned)
PeekNth(sc, offset) ==
    LET i == sc.current + offset
    IN  IF i >= 0 /\ i < Len(sc.source) THEN sc.source[i + 1] ELSE NoChar

\* Scanner::is_at_end
IsAtEnd(sc) == sc.current = Len(sc.source)

\* Scanner::peek
Peek(sc) == PeekNth(sc, 0)

\* Scanner::peek_next
PeekNext(sc) == IF IsAtEnd(sc) THEN NoChar ELSE PeekNth(sc, 1)

\* Scanner::advance: the scanner after it; the character it returns is
\* PeekNth(that, -1), which every caller has checked to exist.
ScAdvance(sc) == [sc EXCEPT !.current = @ + 1]

\* Scanner::make_token
MakeToken(sc, token_type) ==
    [token_type |-> token_type,
     literal |-> SubSeq(sc.source, sc.start + 1, sc.current),
     line |-> sc.line]

\* Result<Token, ScanError>
TokOk(sc, token_type) ==
    [ok |-> TRUE, sc |-> sc, token |-> MakeToken(sc, token_type), err |-> ""]

\* Result<Token, ScanError>: Err, mutated: the cursor goes back to the start
\* of the token that failed.
TokErrRewind(sc, err) ==
    [ok |-> FALSE, sc |-> [sc EXCEPT !.current = sc.start],
     token |-> MakeToken(sc, "EOF"), err |-> err]

TokErr(sc, err) ==
    [ok |-> FALSE, sc |-> sc, token |-> MakeToken(sc, "EOF"), err |-> err]

\* Scanner::skip_whitespace, the inner loop of the `//` arm
RECURSIVE SkipComment(_)
SkipComment(sc) ==
    IF Peek(sc) # NoChar /\ Peek(sc) # "\n" /\ ~IsAtEnd(sc)
    THEN SkipComment(ScAdvance(sc))
    ELSE sc

\* Scanner::skip_whitespace
RECURSIVE SkipWhitespace(_)
SkipWhitespace(sc) ==
    LET c == Peek(sc)
    IN  IF c \in {" ", "\r", "\t"} THEN SkipWhitespace(ScAdvance(sc))
        ELSE IF c = "\n"
        THEN SkipWhitespace(ScAdvance([sc EXCEPT !.line = @ + 1]))
        ELSE IF c = "/" /\ PeekNext(sc) = "/" THEN SkipWhitespace(SkipComment(sc))
        ELSE sc

\* Scanner::match_char
\* Scanner::match_char, mutated: the following character is consumed
\* whatever it is.
MatchCharAny(sc, expected) ==
    IF IsAtEnd(sc)
    THEN [sc |-> sc, matched |-> FALSE]
    ELSE [sc |-> [sc EXCEPT !.current = @ + 1], matched |-> Peek(sc) = expected]

MatchChar(sc, expected) ==
    IF IsAtEnd(sc) \/ (Peek(sc) # NoChar /\ Peek(sc) # expected)
    THEN [sc |-> sc, matched |-> FALSE]
    ELSE [sc |-> [sc EXCEPT !.current = @ + 1], matched |-> TRUE]

\* Scanner::string, its while loop
RECURSIVE StringBody(_)
\* Scanner::string, the loop, mutated: a newline does not bump the line.
RECURSIVE StringBodySameLine(_)
StringBodySameLine(sc) ==
    IF Peek(sc) # NoChar /\ Peek(sc) # "\"" /\ ~IsAtEnd(sc)
    THEN StringBodySameLine(ScAdvance(sc))
    ELSE sc

StringBody(sc) ==
    IF Peek(sc) # NoChar /\ Peek(sc) # "\"" /\ ~IsAtEnd(sc)
    THEN StringBody(ScAdvance(IF Peek(sc) = "\n"
                              THEN [sc EXCEPT !.line = @ + 1] ELSE sc))
    ELSE sc

\* Scanner::string
ScanString(sc) ==
    LET Closed(b) ==
            IF IsAtEnd(b) THEN TokErr(b, "UnterminatedString")
            ELSE TokOk(ScAdvance(b), "String")
    IN  Closed(StringBody(sc))

\* Scanner::number, its while loops
RECURSIVE DigitRun(_)
DigitRun(sc) == IF Peek(sc) \in Digits THEN DigitRun(ScAdvance(sc)) ELSE sc

\* Scanner::number, mutated: a `.` after the digits is consumed whatever
\* follows it.
ScanNumberGreedy(sc) ==
    LET Fraction(a) ==
            IF Peek(a) = "."
            THEN TokOk(DigitRun(ScAdvance(a)), "Number")
            ELSE TokOk(a, "Number")
    IN  Fraction(DigitRun(sc))

\* Scanner::number
ScanNumber(sc) ==
    LET Fraction(a) ==
            IF Peek(a) = "." /\ PeekNext(a) \in Digits
            THEN TokOk(DigitRun(ScAdvance(a)), "Number")
            ELSE TokOk(a, "Number")
    IN  Fraction(DigitRun(sc))

\* Scanner::check_keyword, mutated: the length of the span is not compared.
CheckKeywordPrefix(sc, start, rest, token_type) ==
    LET offset == sc.start + start
    IN  IF sc.current - sc.start >= start + Len(rest)
           /\ SubSeq(sc.source, offset + 1, offset + Len(rest)) = rest
        THEN token_type
        ELSE "Identifier"

\* Scanner::check_keyword
CheckKeyword(sc, start, rest, token_type) ==
    LET offset == sc.start + start
    IN  IF sc.current - sc.start = start + Len(rest)
           /\ SubSeq(sc.source, offset + 1, offset + Len(rest)) = rest
        THEN token_type
        ELSE "Identifier"

\* Scanner::identifier_type
IdentifierType(sc) ==
    LET c == sc.source[sc.start + 1]
        c2 == sc.source[sc.start + 2]
    IN  CASE c = "a" -> CheckKeyword(sc, 1, <<"n", "d">>, "And")
          [] c = "c" -> CheckKeyword(sc, 1, <<"l", "a", "s", "s">>, "Class")
          [] c = "e" -> CheckKeyword(sc, 1, <<"l", "s", "e">>, "Else")
          [] c = "f" ->
                IF sc.current - sc.start > 1
                THEN CASE c2 = "a" -> CheckKeyword(sc, 2, <<"l", "s", "e">>, "False")
                       [] c2 = "o" -> CheckKeyword(sc, 2, <<"r">>, "For")
                       [] c2 = "u" -> CheckKeyword(sc, 2, <<"n">>, "Fun")
                       [] OTHER -> "Identifier"
                ELSE "Identifier"
          [] c = "i" -> CheckKeyword(sc, 1, <<"f">>, "If")
          [] c = "n" -> CheckKeyword(sc, 1, <<"i", "l">>, "Nil")
          [] c = "o" -> CheckKeyword(sc, 1, <<"r">>, "Or")
          [] c = "p" -> CheckKeyword(sc, 1, <<"r", "i", "n", "t">>, "Print")
          [] c = "r" -> CheckKeyword(sc, 1, <<"e", "t", "u", "r", "n">>, "Return")
          [] c = "s" -> CheckKeyword(sc, 1, <<"u", "p", "e", "r">>, "Super")
          [] c = "t" ->
                IF sc.current - sc.start > 1
                THEN CASE c2 = "h" -> CheckKeyword(sc, 2, <<"i", "s">>, "This")
                       [] c2 = "r" -> CheckKeyword(sc, 2, <<"u", "e">>, "True")
                       [] OTHER -> "Identifier"
                ELSE "Identifier"
          [] c = "v" -> CheckKeyword(sc, 1, <<"a", "r">>, "Var")
          [] c = "w" -> CheckKeyword(sc, 1, <<"h", "i", "l", "e">>, "While")
          [] OTHER -> "Identifier"

\* Scanner::identifier, its while loop
RECURSIVE IdentRun(_)
IdentRun(sc) ==
    IF Peek(sc) \in (Digits \cup Alpha) THEN IdentRun(ScAdvance(sc)) ELSE sc

\* Scanner::identifier
ScanIdentifier(sc) ==
    LET Typed(a) == TokOk(a, IdentifierType(a))
    IN  Typed(IdentRun(sc))

\* Scanner::scan_token: the scanner after the call and the token or the
\* ScanError it returned.
ScanToken(sc0) ==
    LET OneOrTwo(m, two, one) == TokOk(m.sc, IF m.matched THEN two ELSE one)
        Token(a, c) ==
            CASE c = "(" -> TokOk(a, "LeftParen")
              [] c = ")" -> TokOk(a, "RightParen")
              [] c = "{" -> TokOk(a, "LeftBrace")
              [] c = "}" -> TokOk(a, "RightBrace")
              [] c = ";" -> TokOk(a, "Semicolon")
              [] c = "," -> TokOk(a, "Comma")
              [] c = "." -> TokOk(a, "Dot")
              [] c = "-" -> TokOk(a, "Minus")
              [] c = "+" -> TokOk(a, "Plus")
              [] c = "/" -> TokOk(a, "Slash")
              [] c = "*" -> TokOk(a, "Star")
              [] c = "!" -> OneOrTwo(MatchChar(a, "="), "BangEqual", "Bang")
              [] c = "=" -> OneOrTwo(MatchChar(a, "="), "EqualEqual", "Equal")
              [] c = "<" -> OneOrTwo(MatchChar(a, "="), "LessEqual", "Less")
              [] c = ">" -> OneOrTwo(MatchChar(a, "="), "GreaterEqual", "Greater")
              [] c = "\"" -> ScanString(a)
              [] c \in Digits -> ScanNumber(a)
              [] c \in Alpha -> ScanIdentifier(a)
              [] OTHER -> TokErr(a, "UnexpectedCharacter")
        Started(sc) ==
            IF IsAtEnd(sc) THEN TokOk(sc, "EOF")
            ELSE Token(ScAdvance(sc), Peek(sc))
        Skipped(ws) == Started([ws EXCEPT !.start = ws.current])
    IN  Skipped(SkipWhitespace(sc0))

(***************************************************************************)
(* precedence.rs: Precedence.                                              *)
(***************************************************************************)
\* impl From<Precedence> for usize
Prec(name) ==
    CASE name = "None" -> 0
      [] name = "Assignment" -> 1
      [] name = "Or" -> 2
      [] name = "And" -> 3
      [] name = "Equality" -> 4
      [] name = "Comparison" -> 5
      [] name = "Term" -> 6
      [] name = "Factor" -> 7
      [] name = "Unary" -> 8
      [] name = "Call" -> 9
      [] name = "Primary" -> 10

\* impl Add<usize> for Precedence, mutated: the sum is dropped and the left
\* operand comes back, as it does past Primary.
PrecAddNone(prec, u) == prec

\* impl Add<usize> for Precedence: past Primary the sum is no Precedence
\* and unwrap_or(self) gives the left operand back.
PrecAdd(prec, u) == IF prec + u <= Prec("Primary") THEN prec + u ELSE prec

(***************************************************************************)
(* compiler.rs: the rule table.                                            *)
(***************************************************************************)
\* get_rule(token_type).prefix
RulePrefix(token_type) ==
    CASE token_type = "LeftParen" -> "grouping"
      [] token_type \in {"Minus", "Bang"} -> "unary"
      [] token_type = "String" -> "string"
      [] token_type = "Number" -> "number"
      [] token_type \in {"False", "Nil", "True"} -> "literal"
      [] OTHER -> "none"

\* get_rule(token_type).infix
RuleInfix(token_type) ==
    IF token_type \in {"Minus", "Plus", "Slash", "Star", "BangEqual",
                       "EqualEqual", "Greater", "Less", "GreaterEqual",
                       "LessEqual"}
    THEN "binary"
    ELSE "none"

\* get_rule(token_type).precedence, mutated: `*` and `/` bind like `+`.
RulePrecedenceFlat(token_type) ==
    CASE token_type \in {"Minus", "Plus", "Slash", "Star"} -> Prec("Term")
      [] token_type \in {"BangEqual", "EqualEqual"} -> Prec("Equality")
      [] token_type \in {"Greater", "Less", "GreaterEqual", "LessEqual"} ->
            Prec("Comparison")
      [] OTHER -> Prec("None")

\* get_rule(token_type).precedence
RulePrecedence(token_type) ==
    CASE token_type \in {"Minus", "Plus"} -> Prec("Term")
      [] token_type \in {"Slash", "Star"} -> Prec("Factor")
      [] token_type \in {"BangEqual", "EqualEqual"} -> Prec("Equality")
      [] token_type \in {"Greater", "Less", "GreaterEqual", "LessEqual"} ->
            Prec("Comparison")
      [] OTHER -> Prec("None")

(***************************************************************************)
(* compiler.rs: Parser.  abort records that a panic (an unwrap of None)    *)
(* has unwound the compile; diag is what error_at printed; raised is the   *)
(* history of the calls of error_at, each with the parser it was called   *)
(* on; scans counts the calls of scan_token.                               *)
(***************************************************************************)
\* Option<Token>: None
NoToken == [token_type |-> "None", literal |-> <<>>, line |-> 0]

\* Parser::new
NewParser(src, c) ==
    [scanner |-> NewScanner(src), chunk |-> c,
     previous |-> NoToken, current |-> NoToken,
     had_error |-> FALSE, panic_mode |-> FALSE, diag |-> <<>>, abort |-> FALSE,
     raised |-> <<>>, scans |-> 0]

\* A message that is a literal of the code, as a one-element text.
Msg(text) == <<text>>

\* Parser::error_at
\* Parser::error_at, mutated: the diagnostic is printed in panic mode too.
ErrorAtLoud(p, token, message) ==
    [p EXCEPT
        !.panic_mode = TRUE,
        !.had_error = TRUE,
        !.diag = Append(@, [line |-> token.line,
                            at_end |-> token.token_type = "EOF",
                            literal |-> token.literal,
                            message |-> message])]

\* Parser::error_at
ErrorAtBody(p, token, message) ==
    IF p.panic_mode THEN p
    ELSE [p EXCEPT
            !.panic_mode = TRUE,
            !.had_error = TRUE,
            !.diag = Append(@, [line |-> token.line,
                                at_end |-> token.token_type = "EOF",
                                literal |-> token.literal,
                                message |-> message])]

\* Parser::error_at, with the call added to the history
ErrorAt(p, token, message) ==
    [ErrorAtBody(p, token, message) EXCEPT
        !.raised = Append(@, [before |-> [p EXCEPT !.raised = <<>>],
                              token |-> token, message |-> message])]

\* Parser::error_at_current: unwraps current before the call.
ErrorAtCurrent(p, message) ==
    IF p.current = NoToken THEN [p EXCEPT !.abort = TRUE]
    ELSE ErrorAt(p, p.current, message)

\* Parser::error: unwraps previous before the call.
Error(p, message) ==
    IF p.previous = NoToken THEN [p EXCEPT !.abort = TRUE]
    ELSE ErrorAt(p, p.previous, message)

\* Parser::advance, its loop
RECURSIVE AdvanceLoop(_)
AdvanceLoop(p) ==
    LET Scanned(r) ==
            IF r.ok
            THEN [p EXCEPT !.scanner = r.sc, !.current = r.token, !.scans = @ + 1]
            ELSE AdvanceLoop(ErrorAtCurrent([p EXCEPT !.scanner = r.sc,
                                                      !.scans = @ + 1],
                                            p.current.literal))
    IN  IF p.abort THEN p ELSE Scanned(ScanToken(p.scanner))

\* Parser::advance
Advance(p) == IF p.abort THEN p ELSE AdvanceLoop([p EXCEPT !.previous = p.current])

\* Parser::consume
Consume(p, token_type, message) ==
    IF p.abort THEN p
    ELSE IF p.current.token_type = token_type THEN Advance(p)
    ELSE ErrorAtCurrent(p, message)

\* Parser::emit_byte
EmitByte(p, byte) ==
    IF p.abort THEN p
    ELSE IF p.previous = NoToken THEN [p EXCEPT !.abort = TRUE]
    ELSE [p EXCEPT !.chunk = ChunkWrite(@, byte, p.previous.line)]

\* Parser::emit_bytes
EmitBytes(p, byte1, byte2) == EmitByte(EmitByte(p, byte1), byte2)

\* u8::MAX, the largest index make_constant's try_into accepts
U8Max == 255

\* Parser::make_constant: the parser after it and the u8 it returns.
MakeConstant(p, value) ==
    LET Added(r) ==
            IF r.index <= U8Max
            THEN [p |-> [p EXCEPT !.chunk = r.chunk], constant |-> r.index]
            ELSE [p |-> Error([p EXCEPT !.chunk = r.chunk],
                              Msg("Too many constants in one chunk.")),
                  constant |-> 0]
    IN  Added(AddConstant(p.chunk, value))

\* Parser::emit_constant
EmitConstant(p, value) ==
    LET Made(m) == EmitBytes(m.p, OpByte("Constant"), m.constant)
    IN  Made(MakeConstant(p, value))

\* Parser::emit_return, mutated: nothing is written.
EmitReturnNothing(p) == p

\* Parser::emit_return
EmitReturn(p) == EmitByte(p, OpByte("Return"))

\* The digit of a character
DigitValue(c) ==
    CASE c = "0" -> 0 [] c = "1" -> 1 [] c = "2" -> 2 [] c = "3" -> 3
      [] c = "4" -> 4 [] c = "5" -> 5 [] c = "6" -> 6 [] c = "7" -> 7
      [] c = "8" -> 8 [] c = "9" -> 9

\* str::parse::<f64> on a Number token's text (digits, or digits `.`
\* digits): the decimal value of its digits over the power of ten of the
\* count of digits after the point.
RECURSIVE DecimalOf(_, _, _, _)
DecimalOf(text, i, n, d) ==
    IF i > Len(text) THEN <<n, IF d = 0 THEN 1 ELSE d>>
    ELSE IF text[i] = "." THEN DecimalOf(text, i + 1, n, 1)
    ELSE DecimalOf(text, i + 1, n * 10 + DigitValue(text[i]), d * 10)

\* impl FromStr for Value
ParseNumber(text) ==
    LET r == DecimalOf(text, 1, 0, 0)
    IN  Finite(1, r[1], r[2])

\* Parser::string
ParseString(p) ==
    LET lit == p.previous.literal
    IN  EmitConstant(p, Str(SubSeq(lit, 2, Len(lit) - 1)))

\* Parser::number
ParseNumberLiteral(p) == EmitConstant(p, ParseNumber(p.previous.literal))

\* Parser::literal
ParseLiteral(p) ==
    LET t == p.previous.token_type
    IN  CASE t = "Nil" -> EmitByte(p, OpByte("Nil"))
          [] t = "True" -> EmitByte(p, OpByte("True"))
          [] t = "False" -> EmitByte(p, OpByte("False"))
          [] OTHER -> p

(***************************************************************************)
(* compiler.rs: the productions.  OpCode::Equal, OpCode::Greater and       *)
(* OpCode::Less are named by Parser::binary, but chunk.rs declares no such *)
(* variants and gives them no byte; the model writes them as the three     *)
(* values just above the u8 range, which collide with no byte chunk.rs     *)
(* defines and which TryFrom<u8> does not decode.                          *)
(***************************************************************************)
UndefinedOpByte(op) ==
    CASE op = "Equal" -> U8Max + 1
      [] op = "Greater" -> U8Max + 2
      [] op = "Less" -> U8Max + 3

RECURSIVE ParsePrecedence(_, _)
RECURSIVE InfixLoop(_, _)
RECURSIVE Binary(_)
RECURSIVE Unary(_)
RECURSIVE Grouping(_)

\* Parser::expression
Expression(p) == ParsePrecedence(p, Prec("Assignment"))

\* Parser::grouping, mutated: the closing parenthesis is not consumed.
GroupingNoConsume(p) == Expression(p)

\* Parser::grouping
Grouping(p) ==
    Consume(Expression(p), "RightParen", Msg("Expect ')' after expression."))

\* Parser::binary, the match on operator_type
BinaryEmit(p, operator_type) ==
    CASE operator_type = "BangEqual" ->
            EmitBytes(p, UndefinedOpByte("Equal"), OpByte("Not"))
      [] operator_type = "EqualEqual" -> EmitByte(p, UndefinedOpByte("Equal"))
      [] operator_type = "Greater" -> EmitByte(p, UndefinedOpByte("Greater"))
      [] operator_type = "GreaterEqual" ->
            EmitBytes(p, UndefinedOpByte("Less"), OpByte("Not"))
      [] operator_type = "Less" -> EmitByte(p, UndefinedOpByte("Less"))
      [] operator_type = "LessEqual" ->
            EmitBytes(p, UndefinedOpByte("Greater"), OpByte("Not"))
      [] operator_type = "Plus" -> EmitByte(p, OpByte("Add"))
      [] operator_type = "Minus" -> EmitByte(p, OpByte("Subtract"))
      [] operator_type = "Star" -> EmitByte(p, OpByte("Multiply"))
      [] operator_type = "Slash" -> EmitByte(p, OpByte("Divide"))
      [] OTHER -> p

\* Parser::binary
Binary(p) ==
    LET operator_type == p.previous.token_type
        precedence == RulePrecedence(operator_type)
    IN  BinaryEmit(ParsePrecedence(p, PrecAdd(precedence, 1)), operator_type)

\* Parser::unary, mutated: the operand is parsed at the lowest level.
UnaryLoose(p) ==
    LET Operand(operator_type, q) ==
            CASE operator_type = "Bang" -> EmitByte(q, OpByte("Not"))
              [] operator_type = "Minus" -> EmitByte(q, OpByte("Negate"))
              [] OTHER -> q
    IN  Operand(p.previous.token_type, ParsePrecedence(p, Prec("Assignment")))

\* Parser::unary
Unary(p) ==
    LET Operand(operator_type, q) ==
            CASE operator_type = "Bang" -> EmitByte(q, OpByte("Not"))
              [] operator_type = "Minus" -> EmitByte(q, OpByte("Negate"))
              [] OTHER -> q
    IN  Operand(p.previous.token_type, ParsePrecedence(p, Prec("Unary")))

\* Parser::parse_precedence, the call of the prefix rule
PrefixRule(p, rule) ==
    CASE rule = "grouping" -> Grouping(p)
      [] rule = "unary" -> Unary(p)
      [] rule = "string" -> ParseString(p)
      [] rule = "number" -> ParseNumberLiteral(p)
      [] rule = "literal" -> ParseLiteral(p)

\* Parser::parse_precedence, its while loop
InfixLoop(p, precedence) ==
    LET Advanced(a) ==
            InfixLoop(IF RuleInfix(a.previous.token_type) = "binary"
                      THEN Binary(a) ELSE a,
                      precedence)
    IN  IF p.abort THEN p
        ELSE IF precedence <= RulePrecedence(p.current.token_type)
        THEN Advanced(Advance(p))
        ELSE p

\* Parser::parse_precedence
ParsePrecedence(p, precedence) ==
    LET Ruled(a, rule) ==
            IF rule = "none" THEN Error(a, Msg("Expect expression."))
            ELSE InfixLoop(PrefixRule(a, rule), precedence)
        Advanced(a) ==
            IF a.abort THEN a
            ELSE IF a.previous = NoToken THEN [a EXCEPT !.abort = TRUE]
            ELSE Ruled(a, RulePrefix(a.previous.token_type))
    IN  Advanced(Advance(p))

\* compile: the Parser when compile returns (or panics), and the Result it
\* returns, which is Ok(()) on every path that returns.
Compile(src, c) ==
    LET Returned(p) == [parser |-> p, panicked |-> p.abort, ok |-> TRUE]
    IN  Returned(EmitReturn(
                     Consume(Expression(Advance(NewParser(src, c))),
                             "EOF", Msg("Expect end of expression."))))

(***************************************************************************)
(* The inputs: the source texts given to VM::interpret and the chunks      *)
(* given to VM::instruct.                                                  *)
(***************************************************************************)
\* The concatenation of a sequence of texts.
RECURSIVE Concat(_)
Concat(texts) ==
    IF texts = <<>> THEN <<>> ELSE Head(texts) \o Concat(Tail(texts))

\* All sequences over S of length 0..n.
SeqsUpTo(S, n) == UNION {[1..k -> S] : k \in 0..n}

\* Pieces of source text; adjacent pieces may join into one token (`!` and
\* `=` into `!=`, `1` and `2` into `12`).
Lexemes ==
    {<<"1">>, <<"2">>, <<"+">>, <<"-">>, <<"*">>, <<"!">>, <<"=">>, <<"<">>,
     <<"(">>, <<")">>, <<"t", "r", "u", "e">>, <<"n", "i", "l">>,
     <<"\"", "a", "\"">>, <<"\"">>, <<"@">>, <<" ">>}

\* The operands and the binary operators of the two-operator expressions.
Operands == {<<"1">>, <<"2">>, <<"3">>, <<"t", "r", "u", "e">>}

BinaryOperators ==
    {<<"+">>, <<"-">>, <<"*">>, <<"/">>, <<"=", "=">>, <<"!", "=">>,
     <<"<">>, <<"<", "=">>, <<">">>, <<">", "=">>}

\* The text `a op1 b op2 c`.
TwoOperatorText(a, op1, b, op2, c) ==
    Concat(<<a, <<" ">>, op1, <<" ">>, b, <<" ">>, op2, <<" ">>, c>>)

TwoOperatorSources ==
    {TwoOperatorText(a, op1, b, op2, c) :
        a \in Operands, b \in Operands, c \in Operands,
        op1 \in BinaryOperators, op2 \in BinaryOperators}

\* The example programs of the documentation.
ExampleSources ==
    {<<"1", " ", "+", " ", "1">>,
     <<"!", "n", "i", "l">>,
     <<"1", " ", "+", " ", "t", "r", "u", "e">>,
     <<"2", " ", "-", " ", "3", " ", "-", " ", "4">>,
     <<"1", " ", "+", " ", "(", "2", " ", "+", " ", "t", "r", "u", "e", ")">>,
     <<"(", "1", " ", "+", " ", "1", ")", " ", "*", " ",
       "(", "2", " ", "-", " ", "1", ")", " ", "/", " ", "4">>}

\* The text `a op b`.
OneOperatorText(a, op, b) == Concat(<<a, <<" ">>, op, <<" ">>, b>>)

OneOperatorSources ==
    {OneOperatorText(a, op, b) :
        a \in Operands, b \in Operands, op \in BinaryOperators}

\* Expression trees over the literals with the unary and the arithmetic
\* operators: a literal, a unary operator on a tree, a binary operator on
\* two trees.
Leaf(text) == [node |-> "leaf", text |-> text]

Un(op, e) == [node |-> "unary", op |-> op, e |-> e]

Bin(op, l, r) == [node |-> "binary", op |-> op, l |-> l, r |-> r]

Leaves ==
    {Leaf(<<"0">>), Leaf(<<"1">>), Leaf(<<"2">>), Leaf(<<"t", "r", "u", "e">>),
     Leaf(<<"f", "a", "l", "s", "e">>), Leaf(<<"n", "i", "l">>),
     Leaf(<<"\"", "a", "\"">>)}

FewLeaves == {Leaf(<<"1">>), Leaf(<<"n", "i", "l">>)}

UnaryOperators == {"!", "-"}

ArithmeticOperators == {"+", "-", "*", "/"}

Trees ==
    Leaves
        \cup {Un(o, e) : o \in UnaryOperators, e \in Leaves}
        \cup {Un(o, Un(u, e)) :
                o \in UnaryOperators, u \in UnaryOperators, e \in Leaves}
        \cup {Bin(o, l, r) : o \in ArithmeticOperators, l \in Leaves, r \in Leaves}
        \cup {Un(u, Bin(o, l, r)) :
                u \in UnaryOperators, o \in ArithmeticOperators,
                l \in FewLeaves, r \in FewLeaves}
        \cup {Bin(o, Un(u, l), r) :
                u \in UnaryOperators, o \in ArithmeticOperators,
                l \in FewLeaves, r \in FewLeaves}

\* The text of a tree: a binary operand of an operator is parenthesised.
RECURSIVE Render(_)
Render(t) ==
    LET Operand(e) ==
            IF e.node = "binary" THEN <<"(">> \o Render(e) \o <<")">>
            ELSE Render(e)
    IN  CASE t.node = "leaf" -> t.text
          [] t.node = "unary" -> <<t.op>> \o Operand(t.e)
          [] t.node = "binary" ->
                Operand(t.l) \o <<" ", t.op, " ">> \o Operand(t.r)

TreeSources == {Render(t) : t \in Trees}

\* The text of a tree in parentheses, and the same without the closing one.
Grouped(e) == <<"(">> \o e \o <<")">>

Unclosed(e) == <<"(">> \o e

\* Sources with two mistakes and a consumed token between them.
TwoMistakeSources ==
    {<<"(", "+", ")", " ", "1">>,
     <<"(", "+", ")", " ", ")">>,
     <<"(", "*", ")", "+">>,
     <<"(", "+", ")", "\n", "1">>}

GroupedSources ==
    {Grouped(e) : e \in TreeSources} \cup {Unclosed(e) : e \in TreeSources}

Sources ==
    {Concat(ls) : ls \in SeqsUpTo(Lexemes, MaxLexemes)}
        \cup OneOperatorSources \cup TwoOperatorSources \cup ExampleSources
        \cup TreeSources \cup GroupedSources \cup TwoMistakeSources

\* An instruction of a hand-built chunk: an opcode alone, a constant load
\* in the short or the long form, or a raw byte.
OpItem(op) == [item |-> "op", op |-> op]

ConstItem(v) == [item |-> "const", v |-> v]

LongItem(v) == [item |-> "long", v |-> v]

RawItem(b) == [item |-> "raw", b |-> b]

\* n constants put in the pool and loaded by nothing: the numbers from the
\* size of the pool on, so that no two entries are equal.
FillItem(n) == [item |-> "fill", n |-> n]

\* Chunk::add_constant called n times on c, with the numbers from the size
\* of the pool on: each call pushes its value at the end of the pool.
Fill(c, n) ==
    [c EXCEPT !.constants =
        c.constants \o [i \in 1..n |-> Number(Len(c.constants) + i - 1)]]

\* The chunk after the caller has appended one instruction to it with
\* Chunk::add_constant and Chunk::write, on source line `line`.
AppendItem(c, it, line) ==
    CASE it.item = "op" -> ChunkWrite(c, OpByte(it.op), line)
      [] it.item = "raw" -> ChunkWrite(c, it.b, line)
      [] it.item = "fill" -> Fill(c, it.n)
      [] it.item = "const" ->
            LET Added(r) ==
                    ChunkWrite(ChunkWrite(r.chunk, OpByte("Constant"), line),
                               r.index, line)
            IN  Added(AddConstant(c, it.v))
      [] it.item = "long" ->
            LET Added(r) ==
                    ChunkWrite(
                        ChunkWrite(
                            ChunkWrite(
                                ChunkWrite(r.chunk, OpByte("ConstantLong"), line),
                                r.index \div (256 * 256), line),
                            (r.index \div 256) % 256, line),
                        r.index % 256, line)
            IN  Added(AddConstant(c, it.v))

\* The chunk built from a sequence of instructions, the i-th on line i.
RECURSIVE BuildFrom(_, _, _)
BuildFrom(c, items, i) ==
    IF i > Len(items) THEN c
    ELSE BuildFrom(AppendItem(c, items[i], i), items, i + 1)

BuildChunk(items) == BuildFrom(EmptyChunk, items, 1)

\* Instructions that push one value.
PushItems ==
    {OpItem("Nil"), OpItem("True"), OpItem("False"),
     ConstItem(Number(0)), ConstItem(Number(1)), ConstItem(Number(2)),
     ConstItem(Str(<<>>)), ConstItem(Str(<<"a">>)), ConstItem(Str(<<"b">>))}

OperatorItems ==
    {OpItem("Add"), OpItem("Subtract"), OpItem("Multiply"), OpItem("Divide"),
     OpItem("Not"), OpItem("Negate")}

\* Every instruction: the above, Return, a long constant load, a byte that
\* is no opcode, and a Constant opcode whose operand is left to what follows.
Items ==
    PushItems \cup OperatorItems
        \cup {OpItem("Return"), LongItem(Number(1)), RawItem(12),
              OpItem("Constant")}

\* Short chunks of any instructions.
GeneralPrograms == SeqsUpTo(Items, MaxItems)

\* Three pushes, an operator and Return: the operator finds its operands
\* (one or two) with one or two values below them.
StackPrograms ==
    {<<x, a, b, op, OpItem("Return")>> :
        x \in PushItems, a \in PushItems, b \in PushItems, op \in OperatorItems}

\* A pool of no or of MaxPool constants and a ConstantLong with its three operand
\* bytes written one by one.
LongPrograms ==
    {<<FillItem(n), OpItem("ConstantLong"), RawItem(b[1]), RawItem(b[2]),
       RawItem(b[3]), OpItem("Return")>> :
        n \in {0, MaxPool}, b \in {0, 1} \X {0, 1} \X {0, 1, 2}}

Programs == GeneralPrograms \cup StackPrograms \cup LongPrograms

\* The inputs of SpecReuse.
ReuseSources ==
    {<<>>, <<"1">>, <<"1", "+", "t", "r", "u", "e">>, <<"@">>}

ReusePrograms ==
    {<<ConstItem(Number(1)), OpItem("Return")>>,
     <<OpItem("Nil"), ConstItem(Number(2)), OpItem("Add"), OpItem("Return")>>,
     <<OpItem("True"), OpItem("Not")>>, <<OpItem("Return")>>}

(***************************************************************************)
(* The state machine.                                                      *)
(***************************************************************************)
NoResult == <<"none", "">>

\* No conversion between OpCode and u8 has been made yet.
NoProbe == [fn |-> "none"]

\* No Scanner has been made yet.
NoScan == [some |-> FALSE]

Init ==
    /\ chunk = EmptyChunk
    /\ writes = <<>>
    /\ vm = NewVM
    /\ pc = "ready"
    /\ result = NoResult
    /\ parser = None
    /\ source = <<>>
    /\ steps = 0
    /\ lastOp = "none"
    /\ calls = 0
    /\ probe = NoProbe
    /\ scan = NoScan

\* A caller's Chunk::write(byte, line) on its chunk.
WriteChunk ==
    /\ Len(chunk.code) < MaxWrites
    /\ \E byte \in {OpByte("Return"), OpByte("Nil")}, line \in 1..MaxLine :
        /\ chunk' = ChunkWrite(chunk, byte, line)
        /\ writes' = Append(writes, line)
    /\ UNCHANGED <<vm, pc, result, parser, source, steps, lastOp, calls,
                   probe, scan>>

\* VM::interpret(src) up to the first iteration of run's loop.  A panic in
\* compile unwinds the call and nothing more is done with the VM.
Interpret(src) ==
    /\ pc # "running"
    /\ result[1] # "Panic"
    /\ \E r \in {Compile(src, EmptyChunk)} :
        /\ source' = src
        /\ parser' = Some(r.parser)
        /\ calls' = calls + 1
        /\ steps' = 0
        /\ lastOp' = "none"
        /\ vm' = [vm EXCEPT !.chunk = Some(r.parser.chunk),
                            !.ip = IF r.panicked \/ ~r.ok THEN @ ELSE 0]
        /\ pc' = IF r.panicked \/ ~r.ok THEN "halted" ELSE "running"
        /\ result' = IF r.panicked THEN <<"Panic", "">>
                     ELSE IF ~r.ok THEN <<"CompileError", "">>
                     ELSE NoResult
    /\ UNCHANGED <<chunk, writes, probe, scan>>

\* VM::instruct(c) up to the first iteration of run's loop.
Instruct(c) ==
    /\ pc # "running"
    /\ result[1] # "Panic"
    /\ vm' = [vm EXCEPT !.chunk = Some(c), !.ip = 0]
    /\ pc' = "running"
    /\ result' = NoResult
    /\ calls' = calls + 1
    /\ steps' = 0
    /\ lastOp' = "none"
    /\ UNCHANGED <<chunk, writes, parser, source, probe, scan>>

\* One iteration of the loop of VM::run; when run returns, so does the
\* interpret or instruct call that made it.
Step ==
    /\ pc = "running"
    /\ \E r \in {RunIteration(vm)} :
        /\ vm' = r.vm
        /\ lastOp' = r.op
        /\ steps' = steps + 1
        /\ pc' = IF r.done THEN "halted" ELSE "running"
        /\ result' = IF r.done THEN r.res ELSE result
    /\ UNCHANGED <<chunk, writes, parser, source, calls, probe, scan>>

\* interpret and instruct on a fresh VM, as main.rs makes one per input.
InterpretFresh == calls = 0 /\ \E src \in Sources : Interpret(src)

InstructFresh == calls = 0 /\ \E items \in Programs : Instruct(BuildChunk(items))

Next == InterpretFresh \/ InstructFresh \/ Step

Spec == Init /\ [][Next]_vars

\* interpret and instruct called again and again on one VM value.
InterpretAgain == calls < MaxCalls /\ \E src \in ReuseSources : Interpret(src)

InstructAgain ==
    calls < MaxCalls /\ \E items \in ReusePrograms : Instruct(BuildChunk(items))

NextReuse == InterpretAgain \/ InstructAgain \/ Step

SpecReuse == Init /\ [][NextReuse]_vars

\* Chunk::write called again and again on one chunk.
NextChunk == WriteChunk

SpecChunk == Init /\ [][NextChunk]_vars

\* The inputs of SpecCompile: sources of up to three literals.
CompileSources ==
    {<<"1">>, <<"2">>, <<"\"", "a", "\"">>, <<"t", "r", "u", "e">>,
     <<"-", "1">>, <<"(", "2", ")">>, <<"1", " ", "+", " ", "2">>,
     <<"1", " ", "+", " ", "1">>, <<"\"", "a", "\"", "+", "2">>,
     <<"n", "i", "l", "+", "1">>, <<"f", "a", "l", "s", "e">>, <<"n", "i", "l">>,
     <<"1", "+", "1", "+", "1">>}

\* A caller's Chunk::add_constant on its chunk, before it has compiled
\* anything into it.
AddPoolConstant ==
    /\ pc = "ready"
    /\ Len(chunk.constants) < MaxPool
    /\ \E r \in {AddConstant(chunk, Number(0))} : chunk' = r.chunk
    /\ UNCHANGED <<writes, vm, pc, result, parser, source, steps, lastOp,
                   calls, probe, scan>>

\* compile(src, chunk) on the caller's chunk; the parser writes into that
\* chunk.
CompileInto(src) ==
    /\ pc = "ready"
    /\ \E r \in {Compile(src, chunk)} :
        /\ source' = src
        /\ parser' = Some(r.parser)
        /\ chunk' = r.parser.chunk
        /\ pc' = "compiled"
        /\ result' = IF r.panicked THEN <<"Panic", "">> ELSE NoResult
    /\ UNCHANGED <<writes, vm, steps, lastOp, calls, probe, scan>>

CompileAny == chunk.code = <<>> /\ \E src \in CompileSources : CompileInto(src)

NextCompile == AddPoolConstant \/ CompileAny

SpecCompile == Init /\ [][NextCompile]_vars

\* u8::from(op) for an opcode, and OpCode::try_from of the byte it gives.
Encode ==
    /\ \E op \in OpCodes : \E b \in {OpByte(op)} :
        probe' = [fn |-> "from", op |-> op, byte |-> b, res |-> TryFromU8(b)]
    /\ UNCHANGED <<chunk, writes, vm, pc, result, parser, source, steps,
                   lastOp, calls, scan>>

\* OpCode::try_from(byte) for a byte, and u8::from of the opcode it gives.
Decode ==
    /\ \E byte \in 0..U8Max : \E r \in {TryFromU8(byte)} :
        probe' = [fn |-> "try_from", byte |-> byte, res |-> r,
                  back |-> IF r.ok THEN OpByte(r.op) ELSE byte]
    /\ UNCHANGED <<chunk, writes, vm, pc, result, parser, source, steps,
                   lastOp, calls, scan>>

NextOpCode == Encode \/ Decode

SpecOpCode == Init /\ [][NextOpCode]_vars

\* The inputs of SpecScan: every text of up to MaxScanLen characters over
\* digits, `.`, a letter, the operator characters, the quote, a newline
\* and a blank; the reserved words, their proper prefixes and the words
\* with one more character or in another case; and the texts of the tests.
ScanChars == {"1", "2", ".", "x", "!", "=", "<", ">", "\"", "\n", " ", "/", "@"}

ReservedWords ==
    {<<"a", "n", "d">>, <<"c", "l", "a", "s", "s">>, <<"e", "l", "s", "e">>,
     <<"f", "a", "l", "s", "e">>, <<"f", "o", "r">>, <<"f", "u", "n">>,
     <<"i", "f">>, <<"n", "i", "l">>, <<"o", "r">>,
     <<"p", "r", "i", "n", "t">>, <<"r", "e", "t", "u", "r", "n">>,
     <<"s", "u", "p", "e", "r">>, <<"t", "h", "i", "s">>,
     <<"t", "r", "u", "e">>, <<"v", "a", "r">>, <<"w", "h", "i", "l", "e">>}

WordTexts ==
    ReservedWords
        \cup UNION {{SubSeq(w, 1, n) : n \in 1..Len(w)} : w \in ReservedWords}
        \cup {w \o <<c>> : w \in ReservedWords, c \in {"y", "2", "=", " "}}
        \cup {<<c>> \o w : w \in ReservedWords, c \in {"x", "f", "t"}}
        \cup {<<"N", "i", "l">>, <<"T", "R", "U", "E">>, <<"f", "o", "o">>,
              <<"t", "h", "e">>, <<"f", "x">>, <<"t", "x">>}

TestTexts ==
    {<<"1", "2", ".", "x">>, <<"1", "2", ".", "5">>, <<"1", "2", ".", "5", ".", "6">>,
     <<"1", ".", "2", "x">>, <<"1", "2", ".", ".", "5">>,
     <<"\"", "a", "\n", "\n", "b", "\"", "x">>, <<"\"", "a", "\n", "b">>,
     <<"\n", "\"", "\n", "\"", "\n", "1">>, <<"\"", "a", "\"", "\"", "b", "\"">>,
     <<"!", "=", "=", "=">>, <<"<", "=", ">", "=">>, <<"!", "!", "=", "x">>,
     <<"/", "/", "x", "\n", "\"", "\n", "\"">>,
     <<"-">>, <<"(", "-">>, <<"(", "1">>, <<"(", "(", "-", "!">>,
     <<"1", "+", "@">>, <<"-", "@", "\t", "@">>, <<"1", "+", "\r", "\t">>,
     <<"(", "1", "+", "2", ")", "*", "2">>, <<"1", "/", "/", "1">>,
     <<"1", "/", "/", "\n", "/", "2">>}

ScanTexts == SeqsUpTo(ScanChars, MaxScanLen) \cup WordTexts \cup TestTexts

\* Scanner::new(src) on a text.
NewScan ==
    /\ ~scan.some
    /\ \E src \in ScanTexts :
        scan' = [some |-> TRUE, sc |-> NewScanner(src), results |-> <<>>]
    /\ UNCHANGED <<chunk, writes, vm, pc, result, parser, source, steps,
                   lastOp, calls, probe>>

\* Scanner::scan_token on that scanner, until it has returned EOF; each
\* call is kept with the scanner before and after it.
ScanNext ==
    /\ scan.some
    /\ \A i \in 1..Len(scan.results) : scan.results[i].token.token_type # "EOF"
                                            \/ ~scan.results[i].ok
    /\ \E r \in {ScanToken(scan.sc)} :
        scan' = [scan EXCEPT
                    !.sc = r.sc,
                    !.results = Append(@, [before |-> scan.sc, sc |-> r.sc,
                                           ok |-> r.ok, token |-> r.token,
                                           err |-> r.err])]
    /\ UNCHANGED <<chunk, writes, vm, pc, result, parser, source, steps,
                   lastOp, calls, probe>>

\* compile of the text, once the calls of scan_token on it have reached
\* EOF.
ScanCompile ==
    /\ scan.some
    /\ ~parser.some
    /\ Len(scan.results) >= 1
    /\ scan.results[Len(scan.results)].ok
    /\ scan.results[Len(scan.results)].token.token_type = "EOF"
    /\ \E r \in {Compile(scan.sc.source, EmptyChunk)} :
        /\ source' = scan.sc.source
        /\ parser' = Some(r.parser)
        /\ result' = IF r.panicked THEN <<"Panic", "">> ELSE NoResult
    /\ UNCHANGED <<chunk, writes, vm, pc, steps, lastOp, calls, probe, scan>>

NextScan == NewScan \/ ScanNext \/ ScanCompile

SpecScan == Init /\ [][NextScan]_vars

(***************************************************************************)
(* Properties of Chunk (SpecChunk).                                        *)
(***************************************************************************)
\* The offsets past the end of the code that get_line is probed with: the
\* first few, i32::MAX, 2^31 and 2^32 - 1.
PastEnd ==
    {USizeOf(Len(writes) + k) : k \in 0..MaxProbe}
        \cup {USizeOf(I32Max), USize(Half \div 2, 0), USize(Half - 1, Half - 1)}

\* C2: after N writes on a new chunk, get_line(i) is Some of the line given
\* to the i-th write for every offset i below N, and get_line(offset) is
\* None for every offset from N on, the empty chunk included, whether or
\* not the build checks integer overflow.
GetLineOfEveryOffset ==
    \A checks \in BOOLEAN :
        /\ \A i \in 1..Len(writes) :
              GetLine(chunk, USizeOf(i - 1), checks) = Some(writes[i])
        /\ \A idx \in PastEnd : GetLine(chunk, idx, checks) = None

\* The part of the above that is about offsets up to i32::MAX.
GetLineUpToI32Max ==
    \A checks \in BOOLEAN :
        /\ \A i \in 1..Len(writes) :
              GetLine(chunk, USizeOf(i - 1), checks) = Some(writes[i])
        /\ \A k \in 0..MaxProbe :
              GetLine(chunk, USizeOf(Len(writes) + k), checks) = None
        /\ GetLine(chunk, USizeOf(I32Max), checks) = None

\* C3: after any sequence of writes, whatever their line arguments, no two
\* adjacent records of the line table have the same line and every record
\* has a run length of at least 1.
LinesCoalesced ==
    /\ \A i \in 1..Len(chunk.lines) : chunk.lines[i][2] >= 1
    /\ \A i \in 1..(Len(chunk.lines) - 1) :
          chunk.lines[i][1] # chunk.lines[i + 1][1]

\* Writes whose lines decrease and come back to an earlier line after
\* another one, leaving a table with a run longer than 1.
LinesCoalescedWitness ==
    /\ \E i \in 1..Len(writes), j \in 1..Len(writes) :
          i + 1 < j /\ writes[i] = writes[j] /\ writes[i + 1] # writes[i]
    /\ \E i \in 1..(Len(writes) - 1) : writes[i] > writes[i + 1]
    /\ \E r \in 1..Len(chunk.lines) : chunk.lines[r][2] >= 2

(***************************************************************************)
(* Properties of VM::interpret and VM::instruct.                           *)
(***************************************************************************)
\* C1: when the parser has recorded an error for the source text of an
\* interpret call, the call has returned CompileError and not one
\* iteration of run's loop has been made on the chunk.
CompileErrorHalts ==
    (parser.some /\ parser.v.had_error) =>
        (pc = "halted" /\ result = <<"CompileError", "">> /\ steps = 0)

\* C4: whatever interpret and instruct calls were made on the VM before,
\* run's loop starts with ip 0 and an empty stack (SpecReuse).
RunStartsClean ==
    (pc = "running" /\ steps = 0) => (vm.ip = 0 /\ vm.stack = <<>>)

(***************************************************************************)
(* Properties of one iteration of run's loop: the step from a state with   *)
(* pc = "running" in which lastOp' is the opcode decoded.                  *)
(***************************************************************************)
\* The value on top of the stack and the stack below its n top values.
Top == vm.stack[Len(vm.stack)]

Second == vm.stack[Len(vm.stack) - 1]

Below(n) == SubSeq(vm.stack, 1, Len(vm.stack) - n)

\* The opcode op finds its operands on the stack, and their kinds are not
\* ones it accepts.
TypeErrorAt(op) ==
    CASE op = "Add" ->
            /\ Len(vm.stack) >= 2
            /\ <<Second.kind, Top.kind>>
                   \notin {<<"Number", "Number">>, <<"Str", "Str">>}
      [] op \in {"Subtract", "Multiply", "Divide"} ->
            /\ Len(vm.stack) >= 2
            /\ <<Second.kind, Top.kind>> # <<"Number", "Number">>
      [] op = "Negate" -> Len(vm.stack) >= 1 /\ Top.kind # "Number"
      [] OTHER -> FALSE

\* C5: Not on a non-empty stack does not fail: it replaces the top value by
\* Bool(true) if that is Nil or Bool(false) and by Bool(false) if it is
\* anything else, a Number or a string included.
NotNeverFails ==
    [][(pc = "running" /\ lastOp' = "Not" /\ vm.stack # <<>>) =>
          /\ pc' = "running"
          /\ vm'.stack = Append(Below(1), Bool(Top \in {Nil, Bool(FALSE)}))]_vars

\* C6: when Add, Subtract, Multiply, Divide or Negate fails with a type
\* error the run halts there and the stack is empty afterwards, whatever
\* was below the operands.
TypeErrorClearsStack ==
    [][(pc = "running" /\ TypeErrorAt(lastOp')) =>
          (pc' = "halted" /\ vm'.stack = <<>>)]_vars

\* C7: a type error of an arithmetic opcode ends the run with the
\* RuntimeError outcome.
TypeErrorIsRuntimeError ==
    [][(pc = "running" /\ TypeErrorAt(lastOp')) =>
          (pc' = "halted" /\ result'[1] = "RuntimeError")]_vars

\* C8: Add with two values on the stack pops b, then a, and pushes the
\* string a followed by b if both are strings, the sum a + b if both are
\* Numbers, and otherwise fails with the type error of Add, pushing nothing.
AddSemantics ==
    [][(pc = "running" /\ lastOp' = "Add" /\ Len(vm.stack) >= 2) =>
          IF Second.kind = "Str" /\ Top.kind = "Str"
          THEN /\ pc' = "running"
               /\ vm'.stack = Append(Below(2), Str(Second.s \o Top.s))
          ELSE IF Second.kind = "Number" /\ Top.kind = "Number"
          THEN /\ pc' = "running"
               /\ vm'.stack = Append(Below(2), F64Add(Second, Top))
          ELSE /\ pc' = "halted"
               /\ result'[1] = "ValueError"
               /\ vm'.stack = Below(2)]_vars

\* Add has joined "a" (pushed first) and "b" (on top) into "ab".
AddSemanticsWitness ==
    /\ pc = "running"
    /\ lastOp = "Add"
    /\ vm.stack # <<>>
    /\ Top = Str(<<"a", "b">>)

\* The f64 operation of a binary arithmetic opcode.
F64Of(op, a, b) ==
    CASE op = "Subtract" -> F64Sub(a, b)
      [] op = "Multiply" -> F64Mul(a, b)
      [] op = "Divide" -> F64Div(a, b)

\* C9: Subtract, Multiply and Divide pop b (the top), then a, and push
\* a - b, a * b, a / b with a on the left; Negate pops v and pushes -v;
\* each does so only if every operand is a Number, and otherwise fails with
\* its type error, pushing nothing.
ArithmeticSemantics ==
    [][/\ (pc = "running" /\ lastOp' \in {"Subtract", "Multiply", "Divide"}
              /\ Len(vm.stack) >= 2) =>
             IF Second.kind = "Number" /\ Top.kind = "Number"
             THEN /\ pc' = "running"
                  /\ vm'.stack = Append(Below(2), F64Of(lastOp', Second, Top))
             ELSE /\ pc' = "halted"
                  /\ result'[1] = "ValueError"
                  /\ vm'.stack = Below(2)
       /\ (pc = "running" /\ lastOp' = "Negate" /\ Len(vm.stack) >= 1) =>
             IF Top.kind = "Number"
             THEN pc' = "running" /\ vm'.stack = Append(Below(1), F64Neg(Top))
             ELSE /\ pc' = "halted"
                  /\ result'[1] = "ValueError"
                  /\ vm'.stack = Below(1)]_vars

\* Subtract has taken 2 (on top) from 1 (pushed first), leaving -1.
ArithmeticSemanticsWitness ==
    /\ pc = "running"
    /\ lastOp = "Subtract"
    /\ vm.stack # <<>>
    /\ Top = Finite(-1, 1, 1)

(***************************************************************************)
(* Properties of the compiler.                                             *)
(***************************************************************************)
\* How tightly a binary operator binds, by the order of precedence.rs:
\* Equality below Comparison below Term below Factor.
Binding(op) ==
    CASE op \in {<<"=", "=">>, <<"!", "=">>} -> 1
      [] op \in {<<"<">>, <<"<", "=">>, <<">">>, <<">", "=">>} -> 2
      [] op \in {<<"+">>, <<"-">>} -> 3
      [] op \in {<<"*">>, <<"/">>} -> 4

\* The opcode(s) that Parser::binary writes for a binary operator.
OperatorCode(op) ==
    CASE op = <<"+">> -> <<OpByte("Add")>>
      [] op = <<"-">> -> <<OpByte("Subtract")>>
      [] op = <<"*">> -> <<OpByte("Multiply")>>
      [] op = <<"/">> -> <<OpByte("Divide")>>
      [] op = <<"=", "=">> -> <<UndefinedOpByte("Equal")>>
      [] op = <<"!", "=">> -> <<UndefinedOpByte("Equal"), OpByte("Not")>>
      [] op = <<">">> -> <<UndefinedOpByte("Greater")>>
      [] op = <<">", "=">> -> <<UndefinedOpByte("Less"), OpByte("Not")>>
      [] op = <<"<">> -> <<UndefinedOpByte("Less")>>
      [] op = <<"<", "=">> -> <<UndefinedOpByte("Greater"), OpByte("Not")>>

\* The load of an operand: True, or Constant with the index k of the
\* operand's constant in the pool.
LoadCode(x, k) ==
    IF x = <<"t", "r", "u", "e">> THEN <<OpByte("True")>>
    ELSE <<OpByte("Constant"), k>>

\* The constants that the operands xs put in the pool.
RECURSIVE Constants(_)
Constants(xs) ==
    IF xs = <<>> THEN 0
    ELSE Constants(Tail(xs)) + (IF Head(xs) = <<"t", "r", "u", "e">> THEN 0 ELSE 1)

\* The pairs of a binary operator and one that binds strictly tighter.
OperatorPairs ==
    {o \in BinaryOperators \X BinaryOperators : Binding(o[2]) > Binding(o[1])}

\* The code expected of `a lo b hi c`, hi binding tighter than lo: the
\* loads of a, b, c, then hi, then lo (and the Return that ends every chunk).
TighterSecond(a, lo, b, hi, c) ==
    [text |-> TwoOperatorText(a, lo, b, hi, c),
     code |-> LoadCode(a, 0) \o LoadCode(b, Constants(<<a>>))
                \o LoadCode(c, Constants(<<a, b>>))
                \o OperatorCode(hi) \o OperatorCode(lo) \o <<OpByte("Return")>>]

\* The code expected of `a hi b lo c`: a, b, hi, c, lo.
TighterFirst(a, hi, b, lo, c) ==
    [text |-> TwoOperatorText(a, hi, b, lo, c),
     code |-> LoadCode(a, 0) \o LoadCode(b, Constants(<<a>>))
                \o OperatorCode(hi) \o LoadCode(c, Constants(<<a, b>>))
                \o OperatorCode(lo) \o <<OpByte("Return")>>]

PrecedenceCases ==
    {TighterSecond(a, o[1], b, o[2], c) :
        a \in Operands, b \in Operands, c \in Operands, o \in OperatorPairs}
    \cup
    {TighterFirst(a, o[2], b, o[1], c) :
        a \in Operands, b \in Operands, c \in Operands, o \in OperatorPairs}

\* C10: for binary operators of which the second binds strictly tighter
\* than the first, `a op1 b op2 c` compiles to the loads of a, b and c, then
\* the opcode(s) of op2, then those of op1; and `a op2 b op1 c` compiles to
\* a, b, op2, c, op1.
PrecedenceOrder ==
    (parser.some /\ steps = 0) =>
        \A k \in PrecedenceCases :
            source = k.text => parser.v.chunk.code = k.code

\* `1 + 2 * 3` has compiled to Constant 0, Constant 1, Constant 2,
\* Multiply, Add, Return.
PrecedenceOrderWitness ==
    /\ parser.some
    /\ steps = 0
    /\ source = <<"1", " ", "+", " ", "2", " ", "*", " ", "3">>
    /\ parser.v.chunk.code =
          <<OpByte("Constant"), 0, OpByte("Constant"), 1, OpByte("Constant"), 2,
            OpByte("Multiply"), OpByte("Add"), OpByte("Return")>>


\* The pairs of binary operators of one precedence level.
SameLevelPairs ==
    {o \in BinaryOperators \X BinaryOperators : Binding(o[1]) = Binding(o[2])}

\* The operands of the expressions with two operators of one level: those
\* of the other two-operator texts and the 4 of `2 - 3 - 4`.
LeftOperands == Operands \cup {<<"4">>}

\* `a op1 b op2 c` for operators of one level, with the code of
\* (a op1 b) op2 c: a, b, op1, c, op2.
LeftAssociativeCases ==
    {TighterFirst(a, o[1], b, o[2], c) :
        a \in LeftOperands, b \in LeftOperands, c \in LeftOperands,
        o \in SameLevelPairs}

\* C11: binary operators of one precedence level associate to the left:
\* `a op1 b op2 c` compiles to a, b, op1, c, op2.
LeftAssociative ==
    (parser.some /\ steps = 0) =>
        \A k \in LeftAssociativeCases :
            source = k.text => parser.v.chunk.code = k.code

\* `2 - 3 - 4` has compiled to Constant 0, Constant 1, Subtract,
\* Constant 2, Subtract, Return.
LeftAssociativeWitness ==
    /\ parser.some
    /\ steps = 0
    /\ source = <<"2", " ", "-", " ", "3", " ", "-", " ", "4">>
    /\ parser.v.chunk.code =
          <<OpByte("Constant"), 0, OpByte("Constant"), 1, OpByte("Subtract"),
            OpByte("Constant"), 2, OpByte("Subtract"), OpByte("Return")>>


\* The opcodes that the desugaring of a binary operator is documented to
\* write after the code of the operands.
DesugaredOpcodes(op) ==
    CASE op = <<"+">> -> <<"Add">>
      [] op = <<"-">> -> <<"Subtract">>
      [] op = <<"*">> -> <<"Multiply">>
      [] op = <<"/">> -> <<"Divide">>
      [] op = <<"=", "=">> -> <<"Equal">>
      [] op = <<"!", "=">> -> <<"Equal", "Not">>
      [] op = <<">">> -> <<"Greater">>
      [] op = <<">", "=">> -> <<"Less", "Not">>
      [] op = <<"<">> -> <<"Less">>
      [] op = <<"<", "=">> -> <<"Greater", "Not">>

\* `a op b` with the code of its operands and the opcodes of its operator.
DesugaringCase(a, op, b) ==
    [text |-> OneOperatorText(a, op, b),
     loads |-> LoadCode(a, 0) \o LoadCode(b, Constants(<<a>>)),
     ops |-> DesugaredOpcodes(op)]

DesugaringCases ==
    {DesugaringCase(a, op, b) :
        a \in Operands, b \in Operands, op \in BinaryOperators}

\* The code is the loads of k, then bytes that are the opcodes of k, then
\* Return.
Desugared(code, k) ==
    /\ Len(code) = Len(k.loads) + Len(k.ops) + 1
    /\ SubSeq(code, 1, Len(k.loads)) = k.loads
    /\ \A i \in 1..Len(k.ops) : ByteOp(code[Len(k.loads) + i]) = k.ops[i]
    /\ code[Len(code)] = OpByte("Return")

\* C12: after the code of both operands, `!=` emits Equal then Not, `==`
\* Equal, `>` Greater, `>=` Less then Not, `<` Less, `<=` Greater then Not,
\* and `+`, `-`, `*`, `/` emit Add, Subtract, Multiply, Divide, each an
\* opcode of the chunk.
BinaryDesugaring ==
    (parser.some /\ steps = 0) =>
        \A k \in DesugaringCases :
            source = k.text => Desugared(parser.v.chunk.code, k)

\* The arithmetic operators alone: `+`, `-`, `*`, `/` emit Add, Subtract,
\* Multiply, Divide after the code of both operands.
ArithmeticDesugaring ==
    (parser.some /\ steps = 0) =>
        \A k \in DesugaringCases :
            (source = k.text /\ k.ops[1] \in OpCodes) =>
                Desugared(parser.v.chunk.code, k)


(***************************************************************************)
(* The faults of VM::run: what `?` turns into RuntimeError.                *)
(***************************************************************************)
\* The opcode at the instruction pointer, when there is one.
OpAtIp == ByteOp(vm.chunk.v.code[vm.ip + 1])

\* The n-th operand byte of the instruction at the instruction pointer.
OperandByte(n) == vm.chunk.v.code[vm.ip + 1 + n]

\* The next iteration of run reads an opcode or an operand past the end of
\* the code, decodes a byte that is no opcode, resolves a constant index
\* outside the pool (for ConstantLong: outside it whichever way the three
\* operand bytes are weighed), or pops an empty stack.
Fault ==
    \/ ~vm.chunk.some
    \/ vm.ip >= Len(vm.chunk.v.code)
    \/ OpAtIp \notin OpCodes
    \/ /\ OpAtIp = "Constant"
       /\ \/ vm.ip + 1 >= Len(vm.chunk.v.code)
          \/ OperandByte(1) >= Len(vm.chunk.v.constants)
    \/ /\ OpAtIp = "ConstantLong"
       /\ \/ vm.ip + 3 >= Len(vm.chunk.v.code)
          \/ /\ 16 * OperandByte(1) + 4 * OperandByte(2) + OperandByte(3)
                    >= Len(vm.chunk.v.constants)
             /\ 65536 * OperandByte(1) + 256 * OperandByte(2) + OperandByte(3)
                    >= Len(vm.chunk.v.constants)
    \/ /\ OpAtIp \in {"Add", "Subtract", "Multiply", "Divide"}
       /\ Len(vm.stack) < 2
    \/ /\ OpAtIp \in {"Not", "Negate"}
       /\ Len(vm.stack) < 1

\* The source has none of ==, !=, <, <=, >, >=.
NoComparison(src) == \A i \in 1..Len(src) : src[i] \notin {"=", "<", ">"}

\* interpret has compiled the source and recorded no error.
ErrorFreeCompile ==
    /\ parser.some
    /\ ~parser.v.had_error
    /\ ~parser.v.abort

LeafValue(text) ==
    CASE text = <<"t", "r", "u", "e">> -> Bool(TRUE)
      [] text = <<"f", "a", "l", "s", "e">> -> Bool(FALSE)
      [] text = <<"n", "i", "l">> -> Nil
      [] text[1] = "\"" -> Str(SubSeq(text, 2, Len(text) - 1))
      [] OTHER -> ParseNumber(text)

\* The logical complement by the documented truthiness rule: Nil and false
\* are falsy, every other value is truthy.
Complement(v) == OkVal(Bool(v = Nil \/ v = Bool(FALSE)))

\* The value of a tree, or the error of the first operator that rejects
\* its operands; operands are evaluated left to right.
RECURSIVE Eval(_)
Eval(t) ==
    LET OfUnary(op, r) ==
            IF ~r.ok THEN r
            ELSE IF op = "!" THEN Complement(r.v) ELSE ValueNeg(r.v)
        OfBinary(op, l, r) ==
            IF ~l.ok THEN l
            ELSE IF ~r.ok THEN r
            ELSE CASE op = "+" -> ValueAdd(l.v, r.v)
                   [] op = "-" -> ValueSub(l.v, r.v)
                   [] op = "*" -> ValueMul(l.v, r.v)
                   [] op = "/" -> ValueDiv(l.v, r.v)
    IN  CASE t.node = "leaf" -> OkVal(LeafValue(t.text))
          [] t.node = "unary" -> OfUnary(t.op, Eval(t.e))
          [] t.node = "binary" -> OfBinary(t.op, Eval(t.l), Eval(t.r))

\* Every `!` of the tree is applied to a Bool or to Nil.
RECURSIVE Falsable(_)
Falsable(t) ==
    LET Operand(r) == r.ok => r.v.kind \in {"Bool", "Nil"}
    IN  CASE t.node = "leaf" -> TRUE
          [] t.node = "unary" ->
                Falsable(t.e) /\ (t.op = "!" => Operand(Eval(t.e)))
          [] t.node = "binary" -> Falsable(t.l) /\ Falsable(t.r)

\* The trees with their text, their value and whether every `!` has a Bool
\* or Nil operand.
TreeCases ==
    {[text |-> Render(t), res |-> Eval(t), falsable |-> Falsable(t)] :
        t \in Trees}

\* The run of interpret has ended at Return with v on top of the stack.
EndedWith(v) ==
    /\ result = <<"Ok", "">>
    /\ lastOp = "Return"
    /\ vm.stack # <<>>
    /\ Top = v

\* C14: for an expression over the literals with unary and arithmetic
\* operators whose tree evaluates without error, interpret ends at Return
\* with the value of the tree on top of the stack.
InterpretEvaluatesTree ==
    (parser.some /\ pc = "halted") =>
        \A k \in TreeCases :
            (source = k.text /\ k.res.ok) => EndedWith(k.res.v)

\* The same for the trees whose every `!` has a Bool or Nil operand.
InterpretEvaluatesFalsableTree ==
    (parser.some /\ pc = "halted") =>
        \A k \in TreeCases :
            (source = k.text /\ k.res.ok /\ k.falsable) => EndedWith(k.res.v)

\* `-(1 + 1)` has ended at Return with -2 on top of the stack.
InterpretEvaluatesFalsableTreeWitness ==
    /\ parser.some
    /\ pc = "halted"
    /\ source = <<"-", "(", "1", " ", "+", " ", "1", ")">>
    /\ EndedWith(Finite(-1, 2, 1))


(***************************************************************************)
(* The constant loads that compile writes (SpecCompile).                   *)
(***************************************************************************)
\* The sources of one number or string literal.
OneLiteralSources == {<<"1">>, <<"2">>, <<"\"", "a", "\"">>}

\* The load of pool index k as documented: Constant and one operand byte
\* when k fits in a byte, else ConstantLong and the three bytes of k in
\* big-endian base 256.
LoadOfIndex(k) ==
    IF k <= U8Max THEN <<OpByte("Constant"), k>>
    ELSE <<OpByte("ConstantLong"), k \div 65536, (k \div 256) % 256, k % 256>>

\* C15: the load of a literal is Constant with one operand byte when the
\* pool index of the literal fits in one byte, and ConstantLong with the
\* three big-endian bytes of the index when it does not.
EncodingByIndex ==
    (pc = "compiled" /\ source \in OneLiteralSources) =>
        chunk.code =
            LoadOfIndex(Len(chunk.constants) - 1) \o <<OpByte("Return")>>

\* The half of it that the code keeps: an index of one byte is loaded with
\* Constant and that byte.
ShortEncoding ==
    (pc = "compiled" /\ source \in OneLiteralSources
        /\ Len(chunk.constants) - 1 <= U8Max) =>
        chunk.code =
            <<OpByte("Constant"), Len(chunk.constants) - 1, OpByte("Return")>>


(***************************************************************************)
(* The constant loads of VM::run.                                          *)
(***************************************************************************)
\* The next iteration of run is a ConstantLong with its three operand
\* bytes in the code.
AtConstantLong ==
    /\ pc = "running"
    /\ vm.chunk.some
    /\ vm.ip + 3 < Len(vm.chunk.v.code)
    /\ OpAtIp = "ConstantLong"

\* The next iteration of run is a Constant with its operand byte in the
\* code.
AtConstant ==
    /\ pc = "running"
    /\ vm.chunk.some
    /\ vm.ip + 1 < Len(vm.chunk.v.code)
    /\ OpAtIp = "Constant"

\* The index that the operand bytes of a ConstantLong are documented to
\* hold, and the index that the loop of run makes of them.
BigEndianIndex == 65536 * OperandByte(1) + 256 * OperandByte(2) + OperandByte(3)

ShiftedIndex == 16 * OperandByte(1) + 4 * OperandByte(2) + OperandByte(3)

\* The iteration has read n operand bytes and pushed the constant at idx.
Loaded(n, idx) ==
    /\ vm'.ip = vm.ip + 1 + n
    /\ vm'.stack = Append(vm.stack, vm.chunk.v.constants[idx + 1])
    /\ pc' = "running"

\* C16: ConstantLong reads 3 operand bytes b0, b1, b2 and pushes the
\* constant at index b0*65536 + b1*256 + b2 whenever that index is in the
\* pool; Constant reads 1 operand byte b and pushes the constant at b.
ConstantLoads ==
    [][/\ (AtConstantLong /\ BigEndianIndex < Len(vm.chunk.v.constants))
            => Loaded(3, BigEndianIndex)
       /\ (AtConstant /\ OperandByte(1) < Len(vm.chunk.v.constants))
            => Loaded(1, OperandByte(1))]_vars

\* What the code does: Constant as documented, ConstantLong with the
\* index b0*16 + b1*4 + b2.
ConstantLoadsShifted ==
    [][/\ (AtConstantLong /\ ShiftedIndex < Len(vm.chunk.v.constants))
            => Loaded(3, ShiftedIndex)
       /\ (AtConstant /\ OperandByte(1) < Len(vm.chunk.v.constants))
            => Loaded(1, OperandByte(1))]_vars


\* C17: an iteration of run that faults (an opcode or operand read past
\* the end of the code, a byte that is no opcode, a constant index outside
\* the pool, a pop of an empty stack) ends the run with RuntimeError.
FaultsAreRuntimeErrors ==
    [][(pc = "running" /\ Fault)
        => (pc' = "halted" /\ result' = <<"RuntimeError", "">>)]_vars

\* instruct has run Nil, Add: Add popped Nil and then an empty stack, and
\* the run ended with RuntimeError.
FaultsAreRuntimeErrorsWitness ==
    /\ ~parser.some
    /\ pc = "halted"
    /\ result = <<"RuntimeError", "">>
    /\ lastOp = "Add"
    /\ steps = 2
    /\ vm.stack = <<>>


(***************************************************************************)
(* The encoding of OpCode (SpecOpCode).                                    *)
(***************************************************************************)
\* C18: the encoding is a bijection between the 12 opcodes and the bytes
\* 0x00 (Constant) to 0x0B (Return): the byte of an opcode decodes to that
\* opcode, a byte up to 0x0B decodes to an opcode with that byte, and a
\* byte from 0x0C to 0xFF fails to decode with BadOPCodeError of that byte.
OpcodeBijection ==
    /\ probe.fn = "from" =>
          /\ probe.byte \in 0..11
          /\ probe.op = "Constant" => probe.byte = 0
          /\ probe.op = "Return" => probe.byte = 11
          /\ probe.res.ok
          /\ probe.res.op = probe.op
    /\ (probe.fn = "try_from" /\ probe.byte <= 11) =>
          /\ probe.res.ok
          /\ probe.res.op \in OpCodes
          /\ probe.back = probe.byte
    /\ (probe.fn = "try_from" /\ probe.byte >= 12) =>
          /\ ~probe.res.ok
          /\ probe.res.err = <<"BadOPCodeError", probe.byte>>

\* Negate was encoded as 0x0A and decoded back.
OpcodeBijectionWitness ==
    /\ probe.fn = "from"
    /\ probe.op = "Negate"
    /\ probe.byte = 10
    /\ probe.res.ok
    /\ probe.res.op = "Negate"


\* An instruction of the code expected of a source: the load of its k-th
\* literal (0-based), or an opcode.
LoadK(k) == [load |-> k]

Op(op) == [byte |-> OpByte(op)]

\* The code of a sequence of such instructions when the pool held n
\* constants before compile: the k-th literal is loaded from index n + k.
RECURSIVE Flatten(_, _)
Flatten(items, n) ==
    IF items = <<>> THEN <<>>
    ELSE (IF "load" \in DOMAIN Head(items)
          THEN LoadOfIndex(n + Head(items).load)
          ELSE <<Head(items).byte>>) \o Flatten(Tail(items), n)

\* Sources with the values of their number and string literals in source
\* order and the instructions before Return.
LiteralCases ==
    {[text |-> <<"1">>, values |-> <<Number(1)>>, items |-> <<LoadK(0)>>],
     [text |-> <<"2">>, values |-> <<Number(2)>>, items |-> <<LoadK(0)>>],
     [text |-> <<"\"", "a", "\"">>, values |-> <<Str(<<"a">>)>>,
      items |-> <<LoadK(0)>>],
     [text |-> <<"t", "r", "u", "e">>, values |-> <<>>, items |-> <<Op("True")>>],
     [text |-> <<"f", "a", "l", "s", "e">>, values |-> <<>>,
      items |-> <<Op("False")>>],
     [text |-> <<"n", "i", "l">>, values |-> <<>>, items |-> <<Op("Nil")>>],
     [text |-> <<"-", "1">>, values |-> <<Number(1)>>,
      items |-> <<LoadK(0), Op("Negate")>>],
     [text |-> <<"(", "2", ")">>, values |-> <<Number(2)>>,
      items |-> <<LoadK(0)>>],
     [text |-> <<"1", " ", "+", " ", "2">>, values |-> <<Number(1), Number(2)>>,
      items |-> <<LoadK(0), LoadK(1), Op("Add")>>],
     [text |-> <<"1", " ", "+", " ", "1">>, values |-> <<Number(1), Number(1)>>,
      items |-> <<LoadK(0), LoadK(1), Op("Add")>>],
     [text |-> <<"\"", "a", "\"", "+", "2">>,
      values |-> <<Str(<<"a">>), Number(2)>>,
      items |-> <<LoadK(0), LoadK(1), Op("Add")>>],
     [text |-> <<"n", "i", "l", "+", "1">>, values |-> <<Number(1)>>,
      items |-> <<Op("Nil"), LoadK(0), Op("Add")>>],
     [text |-> <<"1", "+", "1", "+", "1">>,
      values |-> <<Number(1), Number(1), Number(1)>>,
      items |-> <<LoadK(0), LoadK(1), Op("Add"), LoadK(2), Op("Add")>>]}

\* The pool is the n constants it held before compile (each Number(0))
\* followed by the values of k, one entry a literal, and the code is the
\* instructions of k with the j-th literal loaded from index n + j, then
\* Return.
LiteralsOf(k, n) ==
    /\ n >= 0
    /\ \A i \in 1..n : chunk.constants[i] = Number(0)
    /\ SubSeq(chunk.constants, n + 1, Len(chunk.constants)) = k.values
    /\ chunk.code = Flatten(k.items, n) \o <<OpByte("Return")>>

\* C19: the k-th number or string literal of the source appends one entry
\* with its value to the pool, at index k when the pool was empty and at
\* n + k when it held n entries, with no de-duplication, and a load of
\* that index is emitted; true, false and nil emit the one byte True, False, Nil and
\* leave the pool alone.
LiteralsInPool ==
    pc = "compiled" =>
        \A k \in LiteralCases :
            source = k.text =>
                LiteralsOf(k, Len(chunk.constants) - Len(k.values))

\* The same while every index fits in one byte.
LiteralsInSmallPool ==
    (pc = "compiled" /\ Len(chunk.constants) <= U8Max + 1) =>
        \A k \in LiteralCases :
            source = k.text =>
                LiteralsOf(k, Len(chunk.constants) - Len(k.values))


(***************************************************************************)
(* The grouping production.                                                *)
(***************************************************************************)
\* An expression e with the text of `(e)`, the text of `(e` and the code
\* that compile writes for e alone.
GroupingCase(e) ==
    [closed |-> Grouped(e), unclosed |-> Unclosed(e),
     code |-> Compile(e, EmptyChunk).parser.chunk.code]

GroupingCases == {GroupingCase(e) : e \in TreeSources}

\* The parser has recorded the error of a missing `)` at the end of the
\* source, and nothing else.
MissingParenRecorded ==
    /\ parser.v.had_error
    /\ ~parser.v.abort
    /\ Len(parser.v.diag) = 1
    /\ parser.v.diag[1].message = Msg("Expect ')' after expression.")
    /\ parser.v.diag[1].at_end

\* C20: the code of `(e)` is the code of e, compiled without error; when
\* the token after the inner expression is not `)`, here the end of the
\* source, an error is recorded and compile goes on to its end: the
\* code of e with the final Return is written all the same.
GroupingTransparent ==
    (parser.some /\ steps = 0) =>
        \A k \in GroupingCases :
            /\ source = k.closed =>
                  (parser.v.chunk.code = k.code /\ ~parser.v.had_error)
            /\ source = k.unclosed =>
                  (parser.v.chunk.code = k.code /\ MissingParenRecorded)

\* `(1 + 2)` has compiled to the code of `1 + 2`: Constant 0, Constant 1,
\* Add, Return.
GroupingTransparentWitness ==
    /\ parser.some
    /\ steps = 0
    /\ source = <<"(", "1", " ", "+", " ", "2", ")">>
    /\ ~parser.v.had_error
    /\ parser.v.chunk.code =
          <<OpByte("Constant"), 0, OpByte("Constant"), 1, OpByte("Add"),
            OpByte("Return")>>


(***************************************************************************)
(* Scanner faults during Parser::advance.                                  *)
(***************************************************************************)
\* The results of scan_token called again and again on a scanner, up to
\* and including the EOF token.
RECURSIVE ScanFrom(_)
ScanFrom(sc) ==
    LET Rest(r) ==
            IF r.ok /\ r.token.token_type = "EOF" THEN <<r>>
            ELSE <<r>> \o ScanFrom(r.sc)
    IN  Rest(ScanToken(sc))

\* The i-th scan_token call of the parser on its source returned a fault:
\* the parser's scanner has come as far as that call leaves it.
FaultAt(rs, i) == ~rs[i].ok /\ rs[i].sc.current <= parser.v.scanner.current

FaultScanned(rs) == \E i \in 1..Len(rs) : FaultAt(rs, i)

LaterFaultScanned(rs) == \E i \in 2..Len(rs) : FaultAt(rs, i)

\* compile went on after the fault: an error is recorded, no call of the
\* parser panicked and the parser holds a token that the scanner returned.
Recovered ==
    /\ parser.v.had_error
    /\ ~parser.v.abort
    /\ parser.v.current # NoToken
    /\ result[1] # "Panic"

\* C21: when scan_token returns a fault during Parser::advance, at any
\* token position, the first included, the parser records an error and
\* asks for tokens until one is returned; the compile is not aborted.
ScanFaultsRecovered ==
    (parser.some /\ steps = 0 /\ FaultScanned(ScanFrom(NewScanner(source))))
        => Recovered

\* The same for the faults after the first token of the source.
LaterScanFaultsRecovered ==
    (parser.some /\ steps = 0
        /\ ~FaultAt(ScanFrom(NewScanner(source)), 1)
        /\ LaterFaultScanned(ScanFrom(NewScanner(source))))
        => Recovered


(***************************************************************************)
(* The tokens of the scanner (SpecScan).                                   *)
(***************************************************************************)
\* The character of the source at 0-based offset i, or NoChar past the end.
CharAt(i) == IF i < Len(scan.sc.source) THEN scan.sc.source[i + 1] ELSE NoChar

\* The calls of scan_token that returned a token of the given type.
TokensOfType(t) ==
    {i \in 1..Len(scan.results) :
        scan.results[i].ok /\ scan.results[i].token.token_type = t}

\* text is one or more digits.
AllDigits(text) == text # <<>> /\ \A j \in 1..Len(text) : text[j] \in Digits

\* text is digits, or digits, `.` and digits.
NumberText(text) ==
    \/ AllDigits(text)
    \/ \E d \in 2..(Len(text) - 1) :
          /\ text[d] = "."
          /\ AllDigits(SubSeq(text, 1, d - 1))
          /\ AllDigits(SubSeq(text, d + 1, Len(text)))

\* The token r is a number that no further character of the source
\* extends: a digit does not follow it, and a `.` with a digit after it
\* follows it only when it has a fraction already.
MaximalNumber(r) ==
    /\ r.token.literal = SubSeq(scan.sc.source, r.sc.start + 1, r.sc.current)
    /\ NumberText(r.token.literal)
    /\ CharAt(r.sc.current) \notin Digits
    /\ (CharAt(r.sc.current) = "." /\ CharAt(r.sc.current + 1) \in Digits)
          => ~AllDigits(r.token.literal)

\* C22: a Number token is the longest run of digits, with `.` and further
\* digits when a digit follows the `.`; a `.` that no digit follows is not
\* consumed and is scanned as the next token, a Dot.
NumberTokens ==
    scan.some =>
        \A i \in TokensOfType("Number") :
            /\ MaximalNumber(scan.results[i])
            /\ (CharAt(scan.results[i].sc.current) = "." /\ i < Len(scan.results))
                  => /\ scan.results[i + 1].ok
                     /\ scan.results[i + 1].token.token_type = "Dot"
                     /\ scan.results[i + 1].sc.start = scan.results[i].sc.current

\* `12.x` has given the Number `12` and then the Dot.
NumberTokensWitness ==
    /\ scan.some
    /\ scan.sc.source = <<"1", "2", ".", "x">>
    /\ Len(scan.results) = 2
    /\ scan.results[1].ok
    /\ scan.results[1].token.token_type = "Number"
    /\ scan.results[1].token.literal = <<"1", "2">>
    /\ scan.results[2].token.token_type = "Dot"


\* The token type of a reserved word.
KeywordType(w) ==
    CASE w = <<"a", "n", "d">> -> "And"
      [] w = <<"c", "l", "a", "s", "s">> -> "Class"
      [] w = <<"e", "l", "s", "e">> -> "Else"
      [] w = <<"f", "a", "l", "s", "e">> -> "False"
      [] w = <<"f", "o", "r">> -> "For"
      [] w = <<"f", "u", "n">> -> "Fun"
      [] w = <<"i", "f">> -> "If"
      [] w = <<"n", "i", "l">> -> "Nil"
      [] w = <<"o", "r">> -> "Or"
      [] w = <<"p", "r", "i", "n", "t">> -> "Print"
      [] w = <<"r", "e", "t", "u", "r", "n">> -> "Return"
      [] w = <<"s", "u", "p", "e", "r">> -> "Super"
      [] w = <<"t", "h", "i", "s">> -> "This"
      [] w = <<"t", "r", "u", "e">> -> "True"
      [] w = <<"v", "a", "r">> -> "Var"
      [] w = <<"w", "h", "i", "l", "e">> -> "While"

\* The calls of scan_token that returned a token starting with a letter.
WordTokens ==
    {i \in 1..Len(scan.results) :
        scan.results[i].ok /\ CharAt(scan.results[i].sc.start) \in Alpha
            /\ scan.results[i].token.token_type # "EOF"}

\* The token r is the whole run of letters and digits from its start.
WholeSpan(r) ==
    /\ r.token.literal = SubSeq(scan.sc.source, r.sc.start + 1, r.sc.current)
    /\ \A j \in 1..Len(r.token.literal) : r.token.literal[j] \in Alpha \cup Digits
    /\ CharAt(r.sc.current) \notin Alpha \cup Digits

\* C23: a span of letters and digits that starts with a letter is the
\* keyword of its text when the text is exactly one of the 16 reserved
\* words and an Identifier otherwise (a proper prefix of a reserved word,
\* a reserved word with more characters); the token text is the whole span.
KeywordsExact ==
    scan.some =>
        \A i \in WordTokens :
            /\ WholeSpan(scan.results[i])
            /\ scan.results[i].token.token_type =
                  IF scan.results[i].token.literal \in ReservedWords
                  THEN KeywordType(scan.results[i].token.literal)
                  ELSE "Identifier"

\* `classy` has been scanned as one Identifier.
KeywordsExactWitness ==
    /\ scan.some
    /\ scan.sc.source = <<"c", "l", "a", "s", "s", "y">>
    /\ Len(scan.results) = 1
    /\ scan.results[1].ok
    /\ scan.results[1].token.token_type = "Identifier"
    /\ scan.results[1].token.literal = <<"c", "l", "a", "s", "s", "y">>


\* The one-character and two-character token types of a first character.
OneCharType(c) ==
    CASE c = "!" -> "Bang" [] c = "=" -> "Equal"
      [] c = "<" -> "Less" [] c = ">" -> "Greater"

TwoCharType(c) ==
    CASE c = "!" -> "BangEqual" [] c = "=" -> "EqualEqual"
      [] c = "<" -> "LessEqual" [] c = ">" -> "GreaterEqual"

\* The calls of scan_token whose token starts with `!`, `=`, `<` or `>`.
LookaheadTokens ==
    {i \in 1..Len(scan.results) :
        /\ scan.results[i].sc.current > scan.results[i].sc.start
        /\ CharAt(scan.results[i].sc.start) \in {"!", "=", "<", ">"}}

\* The token of call i is followed by `=`.
FollowedByEqual(i) == CharAt(scan.results[i].sc.start + 1) = "="

\* The shape of the token of call i: its type, its text and its end.
LookaheadShape(i, type, n) ==
    /\ scan.results[i].ok
    /\ scan.results[i].token.token_type = type
    /\ scan.results[i].sc.current = scan.results[i].sc.start + n
    /\ scan.results[i].token.literal =
          SubSeq(scan.sc.source, scan.results[i].sc.start + 1,
                 scan.results[i].sc.start + n)

\* The call after i starts its token at the character after token i,
\* when that character is not skipped as blank or comment.
NextStartsAt(i) ==
    (/\ i + 1 <= Len(scan.results)
     /\ CharAt(scan.results[i].sc.current) \in ScanChars \ {" ", "\n", "/"})
        => scan.results[i + 1].sc.start = scan.results[i].sc.current

\* C24: a token that starts with `!`, `=`, `<` or `>` is the two-character
\* token when the next character is `=`, and otherwise (another character
\* or the end of the input) the one-character token, and then the next
\* character starts the next token.
OneCharacterLookahead ==
    scan.some =>
        \A i \in LookaheadTokens :
            LET c == CharAt(scan.results[i].sc.start)
            IN  IF FollowedByEqual(i)
                THEN LookaheadShape(i, TwoCharType(c), 2)
                ELSE LookaheadShape(i, OneCharType(c), 1) /\ NextStartsAt(i)

\* `!<` has been scanned as Bang then Less, and `<` ended the input.
OneCharacterLookaheadWitness ==
    /\ scan.some
    /\ scan.sc.source = <<"!", "<">>
    /\ Len(scan.results) = 2
    /\ scan.results[1].token.token_type = "Bang"
    /\ scan.results[2].token.token_type = "Less"
    /\ scan.results[2].sc.start = 1


\* The number of newlines among the characters lo+1 .. hi of the source.
Newlines(lo, hi) ==
    Cardinality({j \in (lo + 1)..hi : scan.sc.source[j] = "\n"})

\* The calls of scan_token whose token starts with a double quote.
QuoteTokens ==
    {i \in 1..Len(scan.results) :
        /\ scan.results[i].sc.current > scan.results[i].sc.start
        /\ CharAt(scan.results[i].sc.start) = "\""}

\* The source has a double quote after the one at offset start.
ClosingQuote(start) ==
    \E j \in (start + 2)..Len(scan.sc.source) : scan.sc.source[j] = "\""

\* Call i returned the string from its opening quote to the next quote,
\* and the line counter rose by the newlines inside it.
StringShape(i) ==
    LET r == scan.results[i]
    IN  /\ r.ok
        /\ r.token.token_type = "String"
        /\ r.token.literal = SubSeq(scan.sc.source, r.sc.start + 1, r.sc.current)
        /\ r.sc.current >= r.sc.start + 2
        /\ CharAt(r.sc.current - 1) = "\""
        /\ \A j \in (r.sc.start + 2)..(r.sc.current - 1) : scan.sc.source[j] # "\""
        /\ r.sc.line = r.before.line + Newlines(r.before.current, r.sc.start)
                          + Newlines(r.sc.start, r.sc.current)
        /\ r.token.line = r.sc.line

\* Call i failed with UnterminatedString at the end of the input, and
\* the call after it returned EOF.
UnterminatedShape(i) ==
    LET r == scan.results[i]
    IN  /\ ~r.ok
        /\ r.err = "UnterminatedString"
        /\ r.sc.current = Len(scan.sc.source)
        /\ i + 1 <= Len(scan.results) =>
              scan.results[i + 1].ok /\ scan.results[i + 1].token.token_type = "EOF"

\* C25: a token that starts with a double quote is the String from that
\* quote to the next one, both included, with the line counter raised by
\* the number of newlines inside; without a closing quote the call fails
\* with UnterminatedString and the next call returns EOF.
StringTokens ==
    scan.some =>
        /\ \A i \in QuoteTokens :
              IF ClosingQuote(scan.results[i].sc.start)
              THEN StringShape(i) ELSE UnterminatedShape(i)
        /\ \A i \in 1..Len(scan.results) :
              scan.results[i].err = "UnterminatedString" => i \in QuoteTokens

\* A string with a newline inside has been scanned on line 2.
StringTokensWitness ==
    /\ scan.some
    /\ scan.sc.source = <<"\"", "\n", "\"">>
    /\ Len(scan.results) = 1
    /\ scan.results[1].ok
    /\ scan.results[1].token.token_type = "String"
    /\ scan.results[1].sc.line = 2

\* An unterminated string has been followed by EOF.
UnterminatedWitness ==
    /\ scan.some
    /\ Len(scan.results) = 2
    /\ scan.results[1].err = "UnterminatedString"
    /\ scan.results[2].ok
    /\ scan.results[2].token.token_type = "EOF"


\* The calls of error_at of the last compile, in order.
Raised == IF parser.some THEN parser.v.raised ELSE <<>>

\* The messages of the parser's own faults (a scan fault has the text of
\* the current token as its message).
ParserMessages ==
    {Msg("Expect expression."), Msg("Expect ')' after expression."),
     Msg("Expect end of expression."), Msg("Too many constants in one chunk.")}

\* Call j of error_at was reported, call k came later, both for a parser
\* fault, and between them the parser consumed a token other than the one of
\* call j: the current token of call k starts after the current token of
\* call j.
SeparateMistakes(j, k) ==
    /\ j < k
    /\ ~Raised[j].before.panic_mode
    /\ Raised[j].message \in ParserMessages
    /\ Raised[k].message \in ParserMessages
    /\ Raised[k].before.scanner.start > Raised[j].before.scanner.start
    /\ Raised[k].before.previous # Raised[j].token
    /\ Raised[k].token # Raised[j].token

\* C26: when a second mistake is met after the parser has consumed tokens
\* past a reported one, panic_mode is clear again, so the second mistake
\* is reported too.
PanicModeCleared ==
    \A j \in 1..Len(Raised) : \A k \in 1..Len(Raised) :
        SeparateMistakes(j, k) => ~Raised[k].before.panic_mode

\* panic_mode is set by the first reported fault and stays set.
PanicModeSticky ==
    \A j \in 1..Len(Raised) : \A k \in 1..Len(Raised) :
        j < k => Raised[k].before.panic_mode


\* The effect of one call of error_at: from parser b to parser a.
ErrorAtEffect(b, a) ==
    IF b.panic_mode
    THEN /\ a.diag = b.diag
         /\ a.had_error = b.had_error
         /\ a.panic_mode
         /\ a.previous = b.previous /\ a.current = b.current
         /\ a.scanner = b.scanner
         /\ a.chunk = b.chunk
         /\ ~a.abort
    ELSE /\ a.panic_mode
         /\ a.had_error
         /\ Len(a.diag) = Len(b.diag) + 1
         /\ a.previous = b.previous /\ a.current = b.current
         /\ a.chunk = b.chunk

\* C27: a call of error_at in panic mode prints nothing and changes
\* neither had_error, panic_mode, the tokens nor the chunk, and the parse
\* goes on; a call out of panic mode sets panic_mode and had_error; and
\* had_error, once set, is still set at every later call and at the end
\* of the compile.
SuppressedInPanic ==
    /\ \A k \in 1..Len(Raised) :
          ErrorAtEffect(Raised[k].before,
                        ErrorAtBody(Raised[k].before, Raised[k].token,
                                    Raised[k].message))
    /\ \A k \in 2..Len(Raised) : Raised[k].before.had_error
    /\ Len(Raised) >= 1 =>
          /\ parser.v.had_error
          /\ Len(parser.v.diag) =
                Cardinality({k \in 1..Len(Raised) : ~Raised[k].before.panic_mode})

\* `(+) 1` has been compiled: two calls of error_at, the second one in
\* panic mode, one diagnostic.
SuppressedInPanicWitness ==
    /\ parser.some
    /\ source = <<"(", "+", ")", " ", "1">>
    /\ Len(Raised) = 2
    /\ ~Raised[1].before.panic_mode
    /\ Raised[2].before.panic_mode
    /\ Len(parser.v.diag) = 1
    /\ parser.v.had_error


\* The pool indices named by the constant loads of code from byte i on, in
\* code order.
RECURSIVE LoadOperands(_, _)
LoadOperands(code, i) ==
    IF i > Len(code) THEN <<>>
    ELSE IF code[i] = OpByte("Constant") /\ i + 1 <= Len(code)
    THEN <<code[i + 1]>> \o LoadOperands(code, i + 2)
    ELSE IF code[i] = OpByte("ConstantLong") /\ i + 3 <= Len(code)
    THEN <<code[i + 1] * 65536 + code[i + 2] * 256 + code[i + 3]>>
            \o LoadOperands(code, i + 4)
    ELSE LoadOperands(code, i + 1)

\* The j-th load of ops names the entry that the j-th add_constant of the
\* compile appended, the pool having held n entries before.
NamesOwnEntry(ops, n) ==
    \A j \in 1..Len(ops) :
        ops[j] = n + j - 1 /\ ops[j] < Len(chunk.constants)

\* C28: every constant load in the compiled code names the pool index
\* that add_constant returned for its literal, an index inside the pool;
\* no load names another entry when the index is above 255.
LoadsNameOwnEntry ==
    pc = "compiled" =>
        NamesOwnEntry(LoadOperands(chunk.code, 1),
                      Len(chunk.constants) - Len(LoadOperands(chunk.code, 1)))

\* The part the code keeps: a literal whose index is above 255 is
\* recorded as a fault, and every operand is inside the pool.
LargeIndexRecorded ==
    pc = "compiled" =>
        /\ \A j \in 1..Len(LoadOperands(chunk.code, 1)) :
              LoadOperands(chunk.code, 1)[j] < Len(chunk.constants)
        /\ (Len(LoadOperands(chunk.code, 1)) >= 1
                /\ Len(chunk.constants) - 1 > U8Max) =>
              /\ parser.v.had_error
              /\ parser.v.diag[1].message = Msg("Too many constants in one chunk.")


\* The opcode of a unary and of an arithmetic operator.
UnaryOp(u) == IF u = "!" THEN "Not" ELSE "Negate"

ArithmeticOp(o) ==
    CASE o = "+" -> "Add" [] o = "-" -> "Subtract"
      [] o = "*" -> "Multiply" [] o = "/" -> "Divide"

\* A leaf is a number or string literal (loaded from the pool).
IsLiteral(e) ==
    e.text \notin {<<"t", "r", "u", "e">>, <<"f", "a", "l", "s", "e">>,
                   <<"n", "i", "l">>}

\* The instruction of a leaf, its literal being the k-th of the source.
LeafItem(e, k) ==
    CASE IsLiteral(e) -> LoadK(k)
      [] e.text = <<"t", "r", "u", "e">> -> Op("True")
      [] e.text = <<"f", "a", "l", "s", "e">> -> Op("False")
      [] e.text = <<"n", "i", "l">> -> Op("Nil")

\* `u a o b` with the instructions a, u, b, o, and `o u a` with a, u, o.
UnaryCases ==
    {[text |-> Render(Bin(o, Un(u, l), r)),
      items |-> <<LeafItem(l, 0), Op(UnaryOp(u)),
                  LeafItem(r, IF IsLiteral(l) THEN 1 ELSE 0),
                  Op(ArithmeticOp(o))>>] :
        u \in UnaryOperators, o \in ArithmeticOperators,
        l \in FewLeaves, r \in FewLeaves}
    \cup
    {[text |-> Render(Un(o, Un(u, e))),
      items |-> <<LeafItem(e, 0), Op(UnaryOp(u)), Op(UnaryOp(o))>>] :
        o \in UnaryOperators, u \in UnaryOperators, e \in Leaves}

\* C29: a unary operator takes the operand next to it, before any binary
\* operator, and unary operators nest: `u a o b` compiles to a, Not or
\* Negate for u, b, the opcode of o, and `o u a` to a, the opcode of u,
\* the opcode of o.
UnaryBindsTighter ==
    (parser.some /\ steps = 0) =>
        \A k \in UnaryCases :
            source = k.text =>
                parser.v.chunk.code = Flatten(k.items, 0) \o <<OpByte("Return")>>

\* `-1 * 1` has compiled to Constant 0, Negate, Constant 1, Multiply,
\* Return.
UnaryBindsTighterWitness ==
    /\ parser.some
    /\ steps = 0
    /\ source = <<"-", "1", " ", "*", " ", "1">>
    /\ parser.v.chunk.code =
          <<OpByte("Constant"), 0, OpByte("Negate"), OpByte("Constant"), 1,
            OpByte("Multiply"), OpByte("Return")>>

\* `!!nil` has compiled to Nil, Not, Not, Return.
UnaryNestsWitness ==
    /\ parser.some
    /\ steps = 0
    /\ source = <<"!", "!", "n", "i", "l">>
    /\ parser.v.chunk.code =
          <<OpByte("Nil"), OpByte("Not"), OpByte("Not"), OpByte("Return")>>


(***************************************************************************)
(* vm.rs: VM::runtime_error.  Nothing in vm.rs calls it; run returns its   *)
(* errors with `?`.  It is written for the point where an iteration of    *)
(* run has failed, and is applied there.                                   *)
(***************************************************************************)
\* VM::runtime_error on VM v under a build with or without overflow
\* checks.  instruction is the value of ip - code.len() - 1 in the
\* integers; in usize each subtraction that goes below 0 panics with the
\* checks on and wraps without them, and get_line then reads the low 32
\* bits of the wrapped value, 2^32 + instruction (the code is shorter than
\* 2^16 bytes).
RuntimeError(v, checks) ==
    LET Looked(line) ==
            IF ~line.some
            THEN [panicked |-> TRUE, underflow |-> TRUE, line |-> line, vm |-> v]
            ELSE [panicked |-> FALSE, underflow |-> TRUE, line |-> line,
                  vm |-> [v EXCEPT !.stack = <<>>]]
        Subtracted(n) ==
            IF n >= 0
            THEN [Looked(GetLine(v.chunk.v, USizeOf(n), checks))
                    EXCEPT !.underflow = FALSE]
            ELSE IF checks
            THEN [panicked |-> TRUE, underflow |-> TRUE, line |-> None, vm |-> v]
            ELSE Looked(GetLine(v.chunk.v, USize(Half - 1, Half + n), checks))
        Report(n) == Subtracted(n) @@ [instruction |-> n]
    IN  IF ~v.chunk.some
        THEN [panicked |-> TRUE, underflow |-> FALSE, line |-> None, vm |-> v,
              instruction |-> 0]
        ELSE Report(v.ip - Len(v.chunk.v.code) - 1)

\* An iteration of run's loop that fails, with runtime_error called on
\* the VM it leaves: at is the offset of the instruction that failed.
StepReport ==
    /\ pc = "running"
    /\ probe = NoProbe
    /\ \E r \in {RunIteration(vm)} :
        /\ r.done
        /\ r.res[1] \in {"RuntimeError", "ValueError"}
        /\ \E checks \in BOOLEAN : \E e \in {RuntimeError(r.vm, checks)} :
            /\ probe' = [fn |-> "runtime_error", at |-> vm.ip, checks |-> checks,
                         len |-> Len(r.vm.chunk.v.code),
                         lines |-> r.vm.chunk.v.lines,
                         panicked |-> e.panicked, underflow |-> e.underflow,
                         instruction |-> e.instruction, line |-> e.line]
            /\ vm' = e.vm
        /\ lastOp' = r.op
        /\ steps' = steps + 1
        /\ pc' = "halted"
        /\ result' = r.res
    /\ UNCHANGED <<chunk, writes, parser, source, calls, scan>>

NextReport == InterpretFresh \/ InstructFresh \/ Step \/ StepReport

SpecReport == Init /\ [][NextReport]_vars

\* C30: when runtime_error reports, the offset it derives from ip is
\* computed without underflow and is an offset of the code, and get_line
\* of it is the line of the instruction that failed.
ReportedOffsetValid ==
    probe.fn = "runtime_error" =>
        /\ ~probe.panicked
        /\ ~probe.underflow
        /\ probe.instruction \in 0..(probe.len - 1)
        /\ \E i \in 1..Len(probe.lines) :
              /\ probe.line = Some(probe.lines[i][1])
              /\ GetLine([lines |-> probe.lines], USizeOf(probe.at), probe.checks)
                    = probe.line

\* What the code does: ip is at most code.len(), so the subtraction goes
\* below 0 in every call; with overflow checks the call panics, without
\* them get_line is asked for a negative i32 and answers the line of the
\* first instruction of the chunk.
ReportedOffsetWraps ==
    probe.fn = "runtime_error" =>
        /\ probe.underflow
        /\ probe.instruction < 0
        /\ probe.checks => probe.panicked
        /\ (~probe.checks /\ probe.lines # <<>>) =>
              ~probe.panicked /\ probe.line = Some(probe.lines[1][1])


\* The loop of run is scheduled until run returns: nothing else runs
\* between two iterations.
\* Instructions of every width (1, 2 and 4 bytes), a byte that is no
\* opcode, a Constant whose operand is what follows, operators that fail
\* on an empty stack or on the wrong type, and Return.
RunItems ==
    {OpItem("Nil"), ConstItem(Number(1)), ConstItem(Str(<<"a">>)),
     OpItem("Add"), OpItem("Negate"), OpItem("Not"), OpItem("Return"),
     LongItem(Number(1)), RawItem(12), OpItem("Constant")}

\* The chunks given to instruct here: the short chunks of these
\* instructions, with and without Return.
RunPrograms == SeqsUpTo(RunItems, MaxItems)

\* instruct on a fresh VM.
InstructRun == calls = 0 /\ \E items \in RunPrograms : Instruct(BuildChunk(items))

NextRun == InstructRun \/ Step

SpecRun == Init /\ [][NextRun]_vars /\ WF_vars(Step)

\* The length of the code the VM runs.
CodeLen == Len(vm.chunk.v.code)

\* An iteration after which the loop goes on: ip has moved forward by the
\* 1 to 4 bytes of one instruction, inside the code, and no more
\* instructions have run than the code has bytes.
IterationGoesOn ==
    /\ vm'.ip - vm.ip \in 1..4
    /\ vm'.ip <= CodeLen
    /\ steps' <= CodeLen

\* An iteration that ends run: at a Return, or with an error; ip has not
\* moved back, and a read at or past the end of the code has failed.
IterationEnds ==
    /\ vm'.ip - vm.ip \in 0..4
    /\ \/ lastOp' = "Return" /\ result' = <<"Ok", "">> /\ steps' <= CodeLen
       \/ result'[1] \in {"RuntimeError", "ValueError"}
            /\ steps' <= CodeLen + 1
            /\ (steps' = CodeLen + 1 => vm.ip >= CodeLen)

\* C31: run terminates on every chunk: an iteration that does not end run
\* moves ip forward by 1 to 4 bytes, a read at an offset from the code
\* length on ends run with an error, at most as many instructions run as
\* the code has bytes, and a running VM halts.
RunTerminates ==
    /\ [][pc = "running" =>
            /\ vm'.chunk = vm.chunk
            /\ IF pc' = "running" THEN IterationGoesOn ELSE IterationEnds
            /\ vm.ip >= CodeLen =>
                  pc' = "halted" /\ result' = <<"RuntimeError", "">>]_vars
    /\ (pc = "running") ~> (pc = "halted")

\* A chunk of two bytes without Return has run off its end: two iterations
\* went on, the third failed to read at offset 2.
RunTerminatesWitness ==
    /\ pc = "halted"
    /\ vm.chunk.some
    /\ Len(vm.chunk.v.code) = 2
    /\ vm.ip = 2
    /\ steps = 3
    /\ result = <<"RuntimeError", "">>

\* A load of four bytes has moved ip from 0 to 4.
LongLoadWitness == pc = "running" /\ lastOp = "ConstantLong" /\ vm.ip = 4 /\ steps = 1


\* The same steps of run on the chunks that compile makes.
CompiledRunProgress ==
    [][pc = "running" =>
        /\ vm'.chunk = vm.chunk
        /\ IF pc' = "running" THEN IterationGoesOn ELSE IterationEnds]_vars


\* A call of scan_token has moved the cursor forward, or was made at the
\* end of the input and returned EOF.
MovedOrEOF(r) ==
    \/ r.sc.current > r.before.current
    \/ /\ r.before.current = Len(scan.sc.source)
       /\ r.sc.current = r.before.current
       /\ r.ok
       /\ r.token.token_type = "EOF"

\* compile has ended: by returning, Return emitted, or by a panic; it has
\* called scan_token at most twice more than the calls that reach EOF,
\* and its scanner is where one of those calls left it.
CompileEnded(p) ==
    /\ p.abort \/ p.chunk.code[Len(p.chunk.code)] = OpByte("Return")
    /\ p.scans >= 1
    /\ p.scans <= Len(scan.results) + 2
    /\ \E i \in 1..Len(scan.results) : p.scanner = scan.results[i].sc

StoppedBeforeEOFWitness ==
    /\ scan.some
    /\ scan.sc.source = <<"1", " ", "1">>
    /\ parser.some
    /\ ~parser.v.abort
    /\ parser.v.current.token_type = "Number"
    /\ parser.v.scans = 2

====
